---- MODULE Spec2Model ----
(***************************************************************************)
(* pcm-loader: decoding an audio stream into a de-interleaved PCM          *)
(* resource (native bit depth, f32, or resampled), and the boundary-safe   *)
(* fill operations of the resource.                                        *)
(*                                                                         *)
(* Specifications:                                                         *)
(*   SpecFill  a DecodedAudio resource and its fill_channel / fill_stereo  *)
(*   SpecInto  the same fills on a DecodedAudio made by into() from a      *)
(*             DecodedAudioF32                                             *)
(*   SpecLoad  one load through decode_native_bitdepth, decode_f32 or      *)
(*             decode_resampled, packet by packet                          *)
(*   SpecConvert  one sample through one of the pcm_*_to_f32 conversions   *)
(*   SpecDrain  resampled loads with an engine that writes at least one    *)
(*             frame per drain call, under fairness of the drain loop      *)
(*   SpecPool  the loader's pool of resampling engines over a sequence of  *)
(*             loads                                                       *)
(***************************************************************************)
EXTENDS Integers, Sequences, FiniteSets, TLC

VARIABLES
    target_endian,  \* cfg(target_endian) of the build: "little" or "big"
    resource,       \* the DecodedAudio under SpecFill
    buf_l,          \* the caller's output buffer (left)
    buf_r,          \* the caller's second output buffer (right)
    call,           \* the last fill call: its arguments and what it returned
    req,            \* the load in progress: entry point, track parameters, engine
    pc,             \* where the load is: idle, first, rest, packets, copy, drain, done
    load_result,    \* "none" while running, then Ok or the LoadError variant
    loaded,         \* the value returned on Ok
    dec,            \* packet-loop locals: counters, first_packet, max_frames, ...
    final_buf,      \* the length of each channel of decoded_channels / final_buf
    rs,             \* decode_resampled locals: staging, delay, target length
    resampler,      \* what the engine holds: "clean", "used" (frames of this
                    \* load) or "stale" (frames of an earlier load)
    conv,           \* the sample given to a conversion and the f32 it returned
    resamplers,     \* SymphoniumLoader::resamplers: the pooled (key, engine) entries
    lent            \* what get_resampler did for the last load on the loader

fillVars == <<target_endian, resource, buf_l, buf_r, call>>

loadVars == <<req, pc, load_result, loaded, dec, final_buf, rs, resampler>>

convVars == <<conv>>

poolVars == <<resamplers, lent>>

vars == <<fillVars, loadVars, convVars, poolVars>>


(***************************************************************************)
(* Floating-point arithmetic of the conversion functions and of the       *)
(* target-length computation.  A natural number of any size is a          *)
(* little-endian sequence of 15-bit limbs without a high zero limb, so    *)
(* that 53-bit significands and their products stay exact.                *)
(***************************************************************************)
Base == 2^15

RECURSIVE NatToBig(_)
NatToBig(n) == IF n = 0 THEN << >> ELSE <<n % Base>> \o NatToBig(n \div Base)

RECURSIVE BigToNat(_)
BigToNat(b) == IF b = << >> THEN 0 ELSE Head(b) + Base * BigToNat(Tail(b))

RECURSIVE BTrim(_)
BTrim(b) ==
    IF b = << >> THEN << >>
    ELSE IF b[Len(b)] = 0 THEN BTrim(SubSeq(b, 1, Len(b) - 1)) ELSE b

Limb(a, i) == IF i >= 1 /\ i <= Len(a) THEN a[i] ELSE 0

RECURSIVE BAddFrom(_, _, _, _)
BAddFrom(a, b, i, c) ==
    IF i > Len(a) /\ i > Len(b)
    THEN (IF c = 0 THEN << >> ELSE <<c>>)
    ELSE LET s == Limb(a, i) + Limb(b, i) + c
         IN  <<s % Base>> \o BAddFrom(a, b, i + 1, s \div Base)

BAdd(a, b) == BAddFrom(a, b, 1, 0)

RECURSIVE BSubFrom(_, _, _, _)
BSubFrom(a, b, i, c) ==
    IF i > Len(a) THEN << >>
    ELSE LET s == Limb(a, i) - Limb(b, i) - c
         IN  <<(s + Base) % Base>> \o BSubFrom(a, b, i + 1, IF s < 0 THEN 1 ELSE 0)

BSub(a, b) == BTrim(BSubFrom(a, b, 1, 0))

RECURSIVE BLessFrom(_, _, _)
BLessFrom(a, b, i) ==
    IF i = 0 THEN FALSE
    ELSE IF a[i] # b[i] THEN a[i] < b[i]
    ELSE BLessFrom(a, b, i - 1)

BLess(a, b) == IF Len(a) # Len(b) THEN Len(a) < Len(b) ELSE BLessFrom(a, b, Len(a))

RECURSIVE BMulSmallFrom(_, _, _, _)
BMulSmallFrom(a, k, i, c) ==
    IF i > Len(a) THEN (IF c = 0 THEN << >> ELSE <<c>>)
    ELSE LET s == a[i] * k + c
         IN  <<s % Base>> \o BMulSmallFrom(a, k, i + 1, s \div Base)

BMulSmall(a, k) == IF k = 0 THEN << >> ELSE BMulSmallFrom(a, k, 1, 0)

ZeroLimbs(k) == [i \in 1..k |-> 0]

RECURSIVE BMulFrom(_, _, _)
BMulFrom(a, b, i) ==
    IF i > Len(b) THEN << >>
    ELSE BAdd(IF b[i] = 0 THEN << >> ELSE ZeroLimbs(i - 1) \o BMulSmall(a, b[i]),
              BMulFrom(a, b, i + 1))

BMul(a, b) == BMulFrom(a, b, 1)

RECURSIVE SmallBitLen(_)
SmallBitLen(n) == IF n = 0 THEN 0 ELSE 1 + SmallBitLen(n \div 2)

BitLen(a) == IF a = << >> THEN 0 ELSE 15 * (Len(a) - 1) + SmallBitLen(a[Len(a)])

BitOf(a, i) == (Limb(a, (i \div 15) + 1) \div 2^(i % 15)) % 2

BShl(a, k) ==
    IF a = << >> THEN << >> ELSE ZeroLimbs(k \div 15) \o BMulSmall(a, 2^(k % 15))

BShr(a, k) ==
    LET q == k \div 15
        r == k % 15
    IN  IF q >= Len(a) THEN << >>
        ELSE BTrim([i \in 1..(Len(a) - q) |->
                      (a[i + q] \div 2^r) + (Limb(a, i + q + 1) % 2^r) * 2^(15 - r)])

(* The largest limb g in lo..hi with g * d <= r. *)
RECURSIVE QuotLimb(_, _, _, _)
QuotLimb(r, d, lo, hi) ==
    IF lo = hi THEN lo
    ELSE LET mid == (lo + hi + 1) \div 2
         IN  IF BLess(r, BMulSmall(d, mid))
             THEN QuotLimb(r, d, lo, mid - 1)
             ELSE QuotLimb(r, d, mid, hi)

(* Long division, one limb of the quotient at a time, from the high limb. *)
RECURSIVE BDivFrom(_, _, _, _, _)
BDivFrom(a, d, i, q, r) ==
    IF i = 0 THEN [q |-> BTrim(q), r |-> r]
    ELSE LET r2 == BTrim(<<a[i]>> \o r)
             g  == QuotLimb(r2, d, 0, Base - 1)
         IN  BDivFrom(a, d, i - 1, <<g>> \o q, BSub(r2, BMulSmall(d, g)))

BDivMod(a, d) == BDivFrom(a, d, Len(a), << >>, << >>)

(* An exact binary number: (-1)^neg * mag * 2^e. *)
Dy(neg, mag, e) == [neg |-> neg, mag |-> mag, e |-> e]

(* mag * 2^e, plus a nonzero amount below its last bit when sticky, rounded
   to p significant bits, ties to even. *)
RoundBits(neg, mag, e, sticky, p) ==
    IF mag = << >> THEN Dy(FALSE, << >>, 0)
    ELSE IF BitLen(mag) <= p THEN Dy(neg, mag, e)
    ELSE LET d    == BitLen(mag) - p
             keep == BShr(mag, d)
             half == BitOf(mag, d - 1)
             rest == sticky \/ (\E i \in 0..(d - 2) : BitOf(mag, i) = 1)
             up   == half = 1 /\ (rest \/ BitOf(keep, 0) = 1)
         IN  Dy(neg, IF up THEN BAdd(keep, <<1>>) ELSE keep, e + d)

(* n / d rounded to p significant bits. *)
RoundRatio(neg, n, d, p) ==
    IF n = << >> THEN Dy(FALSE, << >>, 0)
    ELSE LET s  == p + 2 + BitLen(d) - BitLen(n)
             nn == IF s >= 0 THEN BShl(n, s) ELSE n
             dd == IF s >= 0 THEN d ELSE BShl(d, 0 - s)
             qr == BDivMod(nn, dd)
         IN  RoundBits(neg, qr.q, 0 - s, qr.r # << >>, p)

FMul(x, y, p) == RoundBits(x.neg # y.neg, BMul(x.mag, y.mag), x.e + y.e, FALSE, p)

FDiv(x, y, p) ==
    LET r == RoundRatio(x.neg # y.neg, x.mag, y.mag, p)
    IN  IF r.mag = << >> THEN r ELSE Dy(r.neg, r.mag, r.e + x.e - y.e)

FAdd(x, y, p) ==
    LET e  == IF x.e <= y.e THEN x.e ELSE y.e
        xm == BShl(x.mag, x.e - e)
        ym == BShl(y.mag, y.e - e)
    IN  IF x.neg = y.neg THEN RoundBits(x.neg, BAdd(xm, ym), e, FALSE, p)
        ELSE IF BLess(xm, ym) THEN RoundBits(y.neg, BSub(ym, xm), e, FALSE, p)
        ELSE RoundBits(x.neg, BSub(xm, ym), e, FALSE, p)

FNeg(x) == IF x.mag = << >> THEN x ELSE Dy(~x.neg, x.mag, x.e)

FSub(x, y, p) == FAdd(x, FNeg(y), p)

FRound(x, p) == RoundBits(x.neg, x.mag, x.e, FALSE, p)

FromInt(n) == IF n < 0 THEN Dy(TRUE, NatToBig(0 - n), 0) ELSE Dy(FALSE, NatToBig(n), 0)

(* ceil of a binary number that is not negative, as an integer *)
FCeil(x) ==
    IF x.mag = << >> THEN 0
    ELSE IF x.e >= 0 THEN BigToNat(BShl(x.mag, x.e))
    ELSE LET k == 0 - x.e
         IN  BigToNat(BShr(x.mag, k))
               + (IF \E i \in 0..(k - 1) : BitOf(x.mag, i) = 1 THEN 1 ELSE 0)

RECURSIVE LowZeros(_, _)
LowZeros(a, i) == IF BitOf(a, i) = 1 THEN i ELSE LowZeros(a, i + 1)

(* The value as <<m, e>>: m * 2^e with m odd, or <<0, 0>>. *)
Canon(x) ==
    IF x.mag = << >> THEN <<0, 0>>
    ELSE LET z == LowZeros(x.mag, 0)
             m == BigToNat(BShr(x.mag, z))
         IN  <<IF x.neg THEN 0 - m ELSE m, x.e + z>>

OfCanon(v) == Dy(v[1] < 0, NatToBig(IF v[1] < 0 THEN 0 - v[1] ELSE v[1]), v[2])

(***************************************************************************)
(* convert.rs.  An f32 value is <<m, e>>, the number m * 2^e with m odd    *)
(* (zero is <<0, 0>>); every operation rounds as the f32 / f64 operation   *)
(* of the source does (24 and 53 significant bits, ties to even).          *)
(***************************************************************************)
F32Bits == 24
F64Bits == 53

F32Zero == <<0, 0>>

FOne == FromInt(1)

(* (2.0 / std::u8::MAX as f32), an f32 constant *)
U8Scale == FDiv(FromInt(2), FromInt(255), F32Bits)

(* a scale of 2 / 256 in place of 2 / 255 *)
pcm_u8_to_f32_by_256(s) ==
    Canon(FSub(FMul(FromInt(s), FDiv(FromInt(2), FromInt(256), F32Bits), F32Bits), FOne, F32Bits))

pcm_u8_to_f32(s) == Canon(FSub(FMul(FromInt(s), U8Scale, F32Bits), FOne, F32Bits))

U16Scale == FDiv(FromInt(2), FromInt(65535), F32Bits)

pcm_u16_to_f32(s) == Canon(FSub(FMul(FromInt(s), U16Scale, F32Bits), FOne, F32Bits))

(* u32::from_le_bytes([s[0], s[1], s[2], 0]); also i32::from_le_bytes of the
   same bytes, whose top byte is 0 *)
from_le_bytes(s) == s[1] + 256 * s[2] + 65536 * s[3]

(* u32::from_be_bytes([0, s[0], s[1], s[2]]) *)
from_be_bytes(s) == 65536 * s[1] + 256 * s[2] + s[3]

U24Scale == FDiv(FromInt(2), FromInt(16777215), F64Bits)

u24_val_to_f32(val) ==
    Canon(FRound(FSub(FMul(FromInt(val), U24Scale, F64Bits), FOne, F64Bits), F32Bits))

pcm_u24_to_f32_le(s) == u24_val_to_f32(from_le_bytes(s))

pcm_u24_to_f32_be(s) == u24_val_to_f32(from_be_bytes(s))

pcm_u24_to_f32_ne(endian, s) ==
    IF endian = "little" THEN pcm_u24_to_f32_le(s) ELSE pcm_u24_to_f32_be(s)

(* f64::from(s) of a u32 s, written as its 16-bit halves <<high, low>> *)
u32_as_f64(s) == Dy(FALSE, BAdd(BShl(NatToBig(s[1]), 16), NatToBig(s[2])), 0)

(* (2.0 / std::u32::MAX as f64) *)
U32Scale == FDiv(FromInt(2), u32_as_f64(<<65535, 65535>>), F64Bits)

pcm_u32_to_f32(s) ==
    Canon(FRound(FSub(FMul(u32_as_f64(s), U32Scale, F64Bits), FOne, F64Bits), F32Bits))

pcm_i8_to_f32(s) == Canon(FDiv(FromInt(s), FromInt(127), F32Bits))

pcm_i16_to_f32(s) == Canon(FDiv(FromInt(s), FromInt(32767), F32Bits))

i24_val_to_f32(val) ==
    Canon(FRound(FDiv(FromInt(val), FromInt(8388607), F64Bits), F32Bits))

pcm_i24_to_f32_le(s) == i24_val_to_f32(from_le_bytes(s))

pcm_i24_to_f32_be(s) == i24_val_to_f32(from_be_bytes(s))

pcm_i24_to_f32_ne(endian, s) ==
    IF endian = "little" THEN pcm_i24_to_f32_le(s) ELSE pcm_i24_to_f32_be(s)

pcm_i32_to_f32(s) == Canon(FRound(FDiv(FromInt(s), FromInt(2147483647), F64Bits), F32Bits))

(* no conversion called yet *)
NoConv == [fn |-> "none", s |-> 0, done |-> FALSE, out |-> F32Zero]

(* `x as f32` of an f64 x *)
f64_as_f32(x) == Canon(FRound(OfCanon(x), F32Bits))


(***************************************************************************)
(* lib.rs / decode.rs: the values a load works on.                         *)
(***************************************************************************)
MaxPackets == 3

DEFAULT_MAX_BYTES == 1000000000

(* Option::None for the optional numbers of a load *)
None == -1

(* the AudioBufferRef variants a decoded packet can have *)
SampleFormats == {"U8", "U16", "U24", "U32", "S8", "S16", "S24", "S32", "F32", "F64"}

(* max_frames = max_bytes / (k * n_channels): k for each first-packet format *)
bytes_per_sample(fmt) ==
    CASE fmt \in {"U8", "S8"}           -> 1
      [] fmt \in {"U16", "S16"}         -> 2
      [] fmt \in {"U24", "S24"}         -> 3
      [] fmt \in {"U32", "S32", "F32"}  -> 4
      [] fmt = "F64"                    -> 8

(* a resource tagged with the encoding of the first packet, whatever it is *)
pcm_type_kept(first_packet) == first_packet

(* what decode_<fmt>_packet pushes for a sample s of the packet: the sample
   itself, its to_ne_bytes(), or for the 32-bit integers the f32 a
   conversion returns *)
pushed(fmt) ==
    CASE fmt = "U32" -> "pcm_u32_to_f32"
      [] fmt = "S32" -> "pcm_i32_to_f32"
      [] fmt \in {"U24", "S24"} -> "to_ne_bytes"
      [] OTHER -> "sample"

(* FirstPacketType -> DecodedAudioType: U32 and S32 are stored as F32 *)
pcm_type(first_packet) == IF first_packet \in {"U32", "S32"} THEN "F32" ELSE first_packet

IdleReq == [entry |-> "none", path |-> "none", sample_rate |-> 0,
            target_sample_rate |-> None, n_channels |-> 0, max_bytes |-> None,
            file_frames |-> None, engine |-> [num_channels |-> 0, chunk |-> 0,
            output_delay |-> 0, output_frames_max |-> 0]]

IdleDec == [pulled |-> 0, decode_calls |-> 0, ended |-> "no", first_packet |-> "none",
            max_frames |-> 0, total_frames |-> 0, capacity |-> None,
            tmp_conversion_buf |-> "none", track_frames |-> 0, planes |-> << >>,
            missing |-> 0, narrow |-> FALSE, stored |-> "none"]

IdleRs == [tmp_resampler_in_len |-> 0, desired_tmp_in_frames |-> 0,
           delay_frames_left |-> 0, total_in_frames |-> 0, decoded_frames |-> 0,
           total_copied_frames |-> 0, total_frames |-> 0, engine_calls |-> 0,
           engine_out |-> 0, tmp_resampler_in_buf |-> << >>, engine_in |-> << >>]

(* no engine: what a call that lends nothing leaves in `lent` *)
NoEngine == [num_channels |-> 0, owner |-> "none", gen |-> 0]

NotCalled == [outcome |-> "not_called", engine |-> NoEngine, constructed |-> FALSE]

(* SymphoniumLoader::new: an empty pool *)
PoolIdle ==
    /\ resamplers = {}
    /\ lent = NotCalled

LoadIdle ==
    /\ req = IdleReq
    /\ pc = "idle"
    /\ load_result = "none"
    /\ loaded = "none"
    /\ dec = IdleDec
    /\ final_buf = << >>
    /\ rs = IdleRs
    /\ resampler = "clean"

(***************************************************************************)
(* resource.rs: DecodedAudio and its fill operations.                      *)
(***************************************************************************)
MaxFrames == 2
MaxBuf == 3
FarFrame == 1000000

Encodings == {"U8", "U16", "U24", "S8", "S16", "S24", "F32", "F64"}

Endians == {"little", "big"}

ChannelCounts == {1, 2, 3}

ResourceRates == {44100}

(* The stored samples the model draws from, per DecodedAudioType variant:
   integers, [u8; 3] byte triples, and f32 / f64 values as <<m, e>>. *)
SampleSet(tag) ==
    CASE tag = "U8"  -> {0, 200}
      [] tag = "U16" -> {0, 65535}
      [] tag = "U24" -> {<<0, 0, 0>>, <<1, 2, 3>>}
      [] tag = "S8"  -> {-128, 127}
      [] tag = "S16" -> {-32768, 1}
      [] tag = "S24" -> {<<255, 255, 255>>, <<1, 0, 0>>}
      [] tag = "F32" -> {<<1, 0>>, <<-1, -1>>}
      [] tag = "F64" -> {<<1, -1>>, <<33554433, -25>>}

(* The conversion fill_channel / fill_stereo apply to one stored sample. *)
convert_sample(endian, tag, s) ==
    CASE tag = "U8"  -> pcm_u8_to_f32(s)
      [] tag = "U16" -> pcm_u16_to_f32(s)
      [] tag = "U24" -> pcm_u24_to_f32_ne(endian, s)
      [] tag = "S8"  -> pcm_i8_to_f32(s)
      [] tag = "S16" -> pcm_i16_to_f32(s)
      [] tag = "S24" -> pcm_i24_to_f32_ne(endian, s)
      [] tag = "F32" -> s
      [] tag = "F64" -> f64_as_f32(s)

(* convert_sample on the samples of the model, computed once *)
ConvertedSamples ==
    [e \in Endians |-> [tag \in Encodings |->
        [s \in SampleSet(tag) |-> convert_sample(e, tag, s)]]]

Converted(tag, s) == ConvertedSamples[target_endian][tag][s]

(* DecodedAudio::new panics on no channel (b[0]) and on unequal lengths. *)
new_panics(resource_type) ==
    LET b == resource_type.pcm
    IN  \/ Len(b) = 0
        \/ \E ch \in 2..Len(b) : Len(b[ch]) # Len(b[1])

DecodedAudio_new(resource_type, sample_rate) ==
    [resource_type |-> resource_type,
     sample_rate   |-> sample_rate,
     channels      |-> Len(resource_type.pcm),
     frames        |-> Len(resource_type.pcm[1])]

channels(self) == self.channels

frames(self) == self.frames

sample_rate(self) == self.sample_rate

get(self) == self.resource_type

(* a fill that leaves the first element of the range untouched *)
fill_zero_after(buf, k) == [i \in 1..Len(buf) |-> IF i > k + 1 THEN F32Zero ELSE buf[i]]

(* buf[k..].fill(0.0), k counted from 0 *)
fill_zero_from(buf, k) == [i \in 1..Len(buf) |-> IF i > k THEN F32Zero ELSE buf[i]]

(* &pcm[channel][frame..frame + fill_frames]; the caller has checked the range *)
pcm_part(pcm, channel, frame, fill_frames) ==
    SubSeq(pcm[channel + 1], frame + 1, frame + fill_frames)

pcm_l_part(pcm, frame, fill_frames) == SubSeq(pcm[1], frame + 1, frame + fill_frames)

(* a right part read from the left channel *)
pcm_r_part_left(pcm, frame, fill_frames) == SubSeq(pcm[1], frame + 1, frame + fill_frames)

pcm_r_part(pcm, frame, fill_frames) == SubSeq(pcm[2], frame + 1, frame + fill_frames)

(* a copy loop that never advances its index *)
copy_part_first(buf, tag, part, fill_frames) ==
    [i \in 1..Len(buf) |->
        IF i <= fill_frames THEN Converted(tag, part[1]) ELSE buf[i]]

(* for i in 0..fill_frames { buf_part[i] = convert(pcm_part[i]) } *)
copy_part(buf, tag, part, fill_frames) ==
    [i \in 1..Len(buf) |->
        IF i <= fill_frames THEN Converted(tag, part[i]) ELSE buf[i]]

overruns(self, frame, buf_len) == frame + buf_len > self.frames

(* a range check that lets the first channel past the end through *)
channel_past_end(self, channel) == channel > self.channels

(* if channel >= self.channels { return Err(()) } *)
channel_out_of_range(self, channel) == channel >= self.channels

fill_channel(self, channel, frame, buf) ==
    IF channel_out_of_range(self, channel)
    THEN [result |-> "Err", n |-> 0, buf |-> buf]
    ELSE IF frame >= self.frames
    THEN [result |-> "Ok", n |-> 0, buf |-> fill_zero_from(buf, 0)]
    ELSE LET over        == overruns(self, frame, Len(buf))
             fill_frames == IF over THEN self.frames - frame ELSE Len(buf)
             buf1        == IF over THEN fill_zero_from(buf, fill_frames) ELSE buf
             tag         == self.resource_type.tag
             pcm         == self.resource_type.pcm
         IN  IF channel >= Len(pcm) \/ frame + fill_frames > Len(pcm[channel + 1])
             THEN [result |-> "Panic", n |-> 0, buf |-> buf1]
             ELSE [result |-> "Ok", n |-> fill_frames,
                   buf |-> copy_part(buf1, tag, pcm_part(pcm, channel, frame, fill_frames),
                                    fill_frames)]

Min(a, b) == IF a <= b THEN a ELSE b

(* a mono branch that forgets the right buffer *)
copy_to_right_never(fc, l, r) ==
    IF fc.result # "Ok"
    THEN [result |-> "Panic", n |-> 0, buf_l |-> fc.buf, buf_r |-> r]
    ELSE [result |-> "Ok", n |-> fc.n, buf_l |-> fc.buf, buf_r |-> r]

(* buf_r.copy_from_slice(buf_l) after fill_channel(0, frame, buf_l).unwrap();
   copy_from_slice panics when the two lengths differ *)
copy_to_right(fc, l, r) ==
    IF fc.result # "Ok"
    THEN [result |-> "Panic", n |-> 0, buf_l |-> fc.buf, buf_r |-> r]
    ELSE IF Len(r) # Len(l)
    THEN [result |-> "Panic", n |-> 0, buf_l |-> fc.buf, buf_r |-> r]
    ELSE [result |-> "Ok", n |-> fc.n, buf_l |-> fc.buf, buf_r |-> fc.buf]

(* the single-channel branch: fill the left buffer, copy it to the right *)
fill_stereo_mono(self, frame, l, r) ==
    copy_to_right(fill_channel(self, 0, frame, l), l, r)

fill_stereo(self, frame, l, r) ==
    LET buf_len == Min(Len(l), Len(r))
    IN  IF self.channels = 1 THEN fill_stereo_mono(self, frame, l, r)
        ELSE IF frame >= self.frames
        THEN [result |-> "Ok", n |-> 0,
              buf_l |-> fill_zero_from(l, 0), buf_r |-> fill_zero_from(r, 0)]
        ELSE LET over        == overruns(self, frame, buf_len)
                 fill_frames == IF over THEN self.frames - frame ELSE buf_len
                 l1          == IF over THEN fill_zero_from(l, fill_frames) ELSE l
                 r1          == IF over THEN fill_zero_from(r, fill_frames) ELSE r
                 tag         == self.resource_type.tag
                 pcm         == self.resource_type.pcm
             IN  IF \/ Len(pcm) < 2
                    \/ frame + fill_frames > Len(pcm[1])
                    \/ frame + fill_frames > Len(pcm[2])
                 THEN [result |-> "Panic", n |-> 0, buf_l |-> l1, buf_r |-> r1]
                 ELSE [result |-> "Ok", n |-> fill_frames,
                       buf_l |-> copy_part(l1, tag, pcm_l_part(pcm, frame, fill_frames),
                                           fill_frames),
                       buf_r |-> copy_part(r1, tag, pcm_r_part(pcm, frame, fill_frames),
                                           fill_frames)]

(* What a caller's buffer holds before a call: anything but silence. *)
Dirty == <<5, 1>>

DirtyBuf(n) == [i \in 1..n |-> Dirty]

StartFrames == (0..(MaxFrames + 1)) \cup {FarFrame}

NoCall == [op |-> "none", channel |-> 0, frame |-> 0, len_l |-> 0, len_r |-> 0,
           result |-> "none", n |-> 0]

(* The build reads its byte order only in the 24-bit conversions. *)
EndiansRead(tag) == IF tag \in {"U24", "S24"} THEN Endians ELSE {"little"}

(* Every resource DecodedAudio::new builds from the model's samples. *)
NewResources ==
    UNION { { DecodedAudio_new(rt, sr) :
                rt \in { x \in [tag : {tag}, pcm : [1..c -> [1..f -> SampleSet(tag)]]] :
                           ~new_panics(x) } } :
            <<tag, c, f, sr>> \in
                Encodings \X ChannelCounts \X (0..MaxFrames) \X ResourceRates }

InitFill ==
    /\ resource \in NewResources
    /\ target_endian \in EndiansRead(resource.resource_type.tag)
    /\ buf_l = << >>
    /\ buf_r = << >>
    /\ call = NoCall
    /\ LoadIdle
    /\ conv = NoConv
    /\ PoolIdle

(* a read that uses up what it copies: the resource is left n frames shorter *)
Returned_consuming(op, channel, frame, nl, nr, bl, br, result, n) ==
    /\ buf_l' = bl
    /\ buf_r' = br
    /\ call' = [op |-> op, channel |-> channel, frame |-> frame,
                len_l |-> nl, len_r |-> nr, result |-> result, n |-> n]
    /\ resource' = [resource EXCEPT !.frames = @ - n]
    /\ UNCHANGED <<target_endian, loadVars, convVars, poolVars>>

Returned(op, channel, frame, nl, nr, bl, br, result, n) ==
    /\ buf_l' = bl
    /\ buf_r' = br
    /\ call' = [op |-> op, channel |-> channel, frame |-> frame,
                len_l |-> nl, len_r |-> nr, result |-> result, n |-> n]
    /\ UNCHANGED <<target_endian, resource, loadVars, convVars, poolVars>>

ChannelReturned(channel, frame, n, out) ==
    Returned("fill_channel", channel, frame, n, 0, out.buf, << >>, out.result, out.n)

StereoReturned(frame, nl, nr, out) ==
    Returned("fill_stereo", 0, frame, nl, nr, out.buf_l, out.buf_r, out.result, out.n)

(* A caller with no call outstanding passes a buffer to fill_channel. *)
FillChannel ==
    /\ call.op = "none"
    /\ \E channel \in 0..3, frame \in StartFrames, n \in 0..MaxBuf :
         ChannelReturned(channel, frame, n,
                         fill_channel(resource, channel, frame, DirtyBuf(n)))

FillStereo ==
    /\ call.op = "none"
    /\ \E frame \in StartFrames, nl \in 0..MaxBuf, nr \in 0..MaxBuf :
         StereoReturned(frame, nl, nr,
                        fill_stereo(resource, frame, DirtyBuf(nl), DirtyBuf(nr)))

(* what an accessor call hands back; for get, the number of channel buffers
   seen through the returned reference *)
accessor(self, op) ==
    CASE op = "channels" -> channels(self)
      [] op = "frames" -> frames(self)
      [] op = "sample_rate" -> sample_rate(self)
      [] op = "get" -> Len(get(self).pcm)

(* A caller with no call outstanding asks channels(), frames(),
   sample_rate() or get(). *)
Inspect ==
    /\ call.op = "none"
    /\ \E op \in {"channels", "frames", "sample_rate", "get"} :
         Returned(op, 0, 0, 0, 0, << >>, << >>, "Ok", accessor(resource, op))

(* The caller has read its buffers and drops them; the resource stays. *)
Release ==
    /\ call.op # "none"
    /\ buf_l' = << >>
    /\ buf_r' = << >>
    /\ call' = NoCall
    /\ UNCHANGED <<target_endian, resource, loadVars, convVars, poolVars>>

NextFill == FillChannel \/ FillStereo \/ Inspect \/ Release

SpecFill == InitFill /\ [][NextFill]_vars


(***************************************************************************)
(* SpecInto: a DecodedAudio made by into() from a DecodedAudioF32, and the *)
(* fill operations on it.                                                  *)
(***************************************************************************)

(* DecodedAudioF32::new: data[0].len() and an assert_eq! on the length of
   every other channel *)
f32_new_panics(data) ==
    \/ Len(data) = 0
    \/ \E ch \in 2..Len(data) : Len(data[ch]) # Len(data[1])

DecodedAudioF32_new(data, rate) == [data |-> data, sample_rate |-> rate]

(* channel buffers of f32 samples, each of its own length *)
F32Channels == UNION { [1..f -> SampleSet("F32")] : f \in 0..MaxFrames }

F32Data == UNION { [1..c -> F32Channels] : c \in 1..2 }

(* `data` is a pub field: a caller can build the struct from any data, or
   write the field of a value that new returned *)
DecodedAudioF32s ==
    { DecodedAudioF32_new(d, sr) : d \in {x \in F32Data : ~f32_new_panics(x)},
                                   sr \in ResourceRates }
    \cup [data : F32Data, sample_rate : ResourceRates]

(* impl Into<DecodedAudio> for DecodedAudioF32: channels and frames are read
   from data and data[0]; nothing is asserted *)
into(self) ==
    [resource_type |-> [tag |-> "F32", pcm |-> self.data],
     sample_rate   |-> self.sample_rate,
     channels      |-> Len(self.data),
     frames        |-> Len(self.data[1])]

InitInto ==
    /\ resource \in {into(d) : d \in DecodedAudioF32s}
    /\ target_endian = "little"
    /\ buf_l = << >>
    /\ buf_r = << >>
    /\ call = NoCall
    /\ LoadIdle
    /\ conv = NoConv
    /\ PoolIdle

SpecInto == InitInto /\ [][NextFill]_vars

(* C36: every channel buffer of a DecodedAudio, built by DecodedAudio::new or by into() from a DecodedAudioF32, has frames() samples, and no fill_channel or fill_stereo call on it indexes past the end of a channel buffer. *)
C36_EveryChannelHasFramesLength ==
    /\ \A ch \in 1..Len(resource.resource_type.pcm) :
         Len(resource.resource_type.pcm[ch]) = frames(resource)
    /\ call.op = "fill_channel" => call.result # "Panic"
    /\ (call.op = "fill_stereo" /\ call.len_l = call.len_r) => call.result # "Panic"

(***************************************************************************)
(* Properties of fill_channel and fill_stereo, read off the state a call   *)
(* leaves: the call record and the two buffers.                            *)
(***************************************************************************)
SampleAt(channel, frame) ==
    Converted(resource.resource_type.tag, resource.resource_type.pcm[channel + 1][frame + 1])

AllZero(buf) == \A i \in 1..Len(buf) : buf[i] = F32Zero

ValidChannelCall == call.op = "fill_channel" /\ call.channel < channels(resource)

PastEndCall ==
    /\ call.frame >= frames(resource)
    /\ \/ ValidChannelCall
       \/ call.op = "fill_stereo"

(* C1: with a start frame at or past frames(), fill_channel on a valid
   channel and fill_stereo zero every element of the buffer(s) they were
   given and report 0 frames copied. *)
C1_PastEndIsSilence ==
    PastEndCall =>
        /\ call.result = "Ok"
        /\ call.n = 0
        /\ Len(buf_l) = call.len_l /\ AllZero(buf_l)
        /\ Len(buf_r) = call.len_r /\ AllZero(buf_r)

InRangeCall == ValidChannelCall /\ call.frame + call.len_l <= frames(resource)

(* C2: fill_channel on a valid channel with frame + n <= frames() returns n
   and puts the converted sample of frame + i at index i, for every i < n. *)
C2_InRangeCopiesAll ==
    InRangeCall =>
        /\ call.result = "Ok"
        /\ call.n = call.len_l
        /\ Len(buf_l) = call.len_l
        /\ \A i \in 1..call.len_l : buf_l[i] = SampleAt(call.channel, call.frame + i - 1)

C2_Witness ==
    /\ InRangeCall
    /\ call.frame >= 1
    /\ call.len_l >= 1
    /\ call.n = call.len_l
    /\ resource.resource_type.pcm[call.channel + 1][1]
         # resource.resource_type.pcm[call.channel + 1][2]

BoundaryCall ==
    /\ ValidChannelCall
    /\ call.frame < frames(resource)
    /\ call.frame + call.len_l > frames(resource)

(* C3: fill_channel on a valid channel with frame < frames() < frame + n
   returns k = frames() - frame, copies frames frame..frames() to the first
   k elements in order, and leaves exactly zeros in the other n - k. *)
C3_BoundaryPrefixThenZeros ==
    BoundaryCall =>
        /\ call.result = "Ok"
        /\ call.n = frames(resource) - call.frame
        /\ Len(buf_l) = call.len_l
        /\ \A i \in 1..call.n : buf_l[i] = SampleAt(call.channel, call.frame + i - 1)
        /\ \A i \in (call.n + 1)..call.len_l : buf_l[i] = F32Zero

C3_Witness ==
    /\ BoundaryCall
    /\ call.n >= 1
    /\ call.len_l >= call.n + 2
    /\ buf_l[call.n] # F32Zero
    /\ buf_l[call.len_l] = F32Zero

(* C4: fill_channel returns Err exactly when channel >= channels(); on a
   valid channel it returns Ok whatever the start frame and buffer length. *)
C4_ErrIffChannelOutOfRange ==
    call.op = "fill_channel" =>
        /\ (call.result = "Err") <=> (call.channel >= channels(resource))
        /\ call.channel < channels(resource) => call.result = "Ok"

C4_Witness ==
    /\ ValidChannelCall
    /\ call.frame = FarFrame
    /\ call.len_l = 0
    /\ call.result = "Ok"

SameAsChannel(fc, buf, n) == fc.result = "Ok" /\ buf = fc.buf /\ n = fc.n

MonoCall ==
    call.op = "fill_stereo" /\ channels(resource) = 1 /\ call.len_l = call.len_r

(* C5: on a one-channel resource, fill_stereo with two buffers of the
   queried length leaves both holding what fill_channel(0, frame, .) writes
   into a buffer of that length, and returns fill_channel's count. *)
C5_MonoFeedsBothSides ==
    MonoCall =>
        /\ call.result = "Ok"
        /\ buf_l = buf_r
        /\ SameAsChannel(fill_channel(resource, 0, call.frame, DirtyBuf(call.len_l)),
                         buf_l, call.n)

C5_Witness ==
    /\ MonoCall
    /\ call.len_l >= 2
    /\ call.n >= 1
    /\ call.n < call.len_l
    /\ buf_r[1] # F32Zero
    /\ buf_r[call.len_l] = F32Zero

StereoCall ==
    call.op = "fill_stereo" /\ channels(resource) >= 2 /\ call.len_l = call.len_r

(* the resource without its channels of index 2 and above *)
first_two(self) ==
    [self EXCEPT !.channels = 2,
                 !.resource_type = [tag |-> @.tag, pcm |-> SubSeq(@.pcm, 1, 2)]]

SameAsStereo(fs, l, r, n) ==
    fs.result = "Ok" /\ l = fs.buf_l /\ r = fs.buf_r /\ n = fs.n

(* C6: on a resource of two or more channels, fill_stereo with buffers of
   one length writes into the left what fill_channel(0, ..) writes, into
   the right what fill_channel(1, ..) writes, returns their count, and does
   the same as on the resource cut down to its first two channels. *)
C6_StereoIsChannelsZeroAndOne ==
    StereoCall =>
        /\ call.result = "Ok"
        /\ SameAsChannel(fill_channel(resource, 0, call.frame, DirtyBuf(call.len_l)),
                         buf_l, call.n)
        /\ SameAsChannel(fill_channel(resource, 1, call.frame, DirtyBuf(call.len_r)),
                         buf_r, call.n)
        /\ SameAsStereo(fill_stereo(first_two(resource), call.frame,
                                    DirtyBuf(call.len_l), DirtyBuf(call.len_r)),
                        buf_l, buf_r, call.n)

C6_Witness ==
    /\ StereoCall
    /\ channels(resource) = 3
    /\ call.n >= 1
    /\ buf_l[1] # buf_r[1]
    /\ resource.resource_type.pcm[3] # resource.resource_type.pcm[2]
    /\ resource.resource_type.pcm[3] # resource.resource_type.pcm[1]

UnequalCall == call.op = "fill_stereo" /\ call.len_l # call.len_r

(* C7: fill_stereo given buffers of different lengths completes, and each
   buffer longer than the returned count holds zeros from that count on. *)
C7_UnequalBuffersCompleteAndPad ==
    UnequalCall =>
        /\ call.result = "Ok"
        /\ \A i \in (call.n + 1)..Len(buf_l) : buf_l[i] = F32Zero
        /\ \A i \in (call.n + 1)..Len(buf_r) : buf_r[i] = F32Zero

(* the stored channel buffers *)
Stored == get(resource).pcm

(* channels() and frames() are the number of buffers and the length of each *)
CountsMatchBuffers ==
    /\ channels(resource) = Len(Stored)
    /\ \A ch \in 1..Len(Stored) : Len(Stored[ch]) = frames(resource)

(* what the last accessor call returned is what the resource holds *)
AccessorReturnsStored ==
    /\ call.op = "channels" => call.n = Len(Stored)
    /\ call.op = "frames" => call.n = Len(Stored[1])
    /\ call.op = "sample_rate" => call.n = resource.sample_rate
    /\ call.op = "get" => call.n = Len(Stored)

(* C19: no call of fill_channel, fill_stereo, channels, frames, sample_rate
   or get changes the resource (samples, encoding tag, channel and frame
   counts, sample rate), and channels() and frames() are always the number
   of channel buffers and the length of each buffer. *)
C19_ResourceIsReadOnly ==
    /\ [](CountsMatchBuffers /\ AccessorReturnsStored)
    /\ [][resource' = resource]_vars

C19_Witness ==
    /\ call.op = "fill_stereo"
    /\ call.n >= 2
    /\ call.n = frames(resource)
    /\ Len(Stored) = 2
    /\ Len(Stored[1]) = call.n
    /\ buf_l[1] # Dirty

(***************************************************************************)
(* lib.rs / decode.rs: one load, from the call to the value it returns.    *)
(***************************************************************************)
MaxEngineCalls == 8

PacketFrames == {0, 49, 98}

SourceRates == {44100}

TargetRates == {None, 44100, 48000}

ChannelChoices == {1, 2}

MaxBytesChoices == {None, 100, 600}

DeclaredFrames == {None, 1, 147}

ChunkSizes == {64}

OutputDelays == {0, 50}

EngineOutputs == {0, 40, 70}

(* the resamplers a load can be handed: get_resampler builds one for the
   source's channel count, ResampleQuality::Custom brings its own *)
Engines ==
    [num_channels : ChannelChoices, chunk : ChunkSizes, output_delay : OutputDelays,
     output_frames_max : {70}]

(* what process_into_buffer returns: Err, or Ok((input_frames, output_frames)),
   the frames the engine says it used and wrote: the whole chunk used, or
   half of it *)
EngineResults ==
    [ok : {TRUE}, input_frames : ChunkSizes, output_frames : EngineOutputs]
      \cup {[ok |-> TRUE, input_frames |-> 32, output_frames |-> 40],
            [ok |-> FALSE, input_frames |-> 0, output_frames |-> 0]}

(* what one turn of the packet loop meets: next_packet() failing (end of
   stream or another error), a packet of another track, or a packet of the
   selected track that decodes, fails to decode, or breaks the decoder. A
   decoded packet has the channels of its own spec(): two here, or one. *)
PacketOutcomes ==
    { [kind |-> k, fmt |-> "none", frames |-> 0, channels |-> 0] :
        k \in {"end", "io_error", "other_track", "decode_error", "fatal"} }
    \cup [kind : {"ok"}, fmt : SampleFormats, frames : PacketFrames, channels : {2}]
    \cup {[kind |-> "ok", fmt |-> "F32", frames |-> 49, channels |-> 1]}

(* the streams tried: at most MaxPackets packets before the end, and packets
   with a channel missing in native and f32 loads *)
StreamGives(p) ==
    \/ p.kind \in {"end", "io_error"}
    \/ dec.pulled < MaxPackets /\ (p.channels = 1 => req.path # "resampled")

(* (n as f64 * (target as f64 / source as f64)).ceil() as usize *)
target_len(n, target_sample_rate, pcm_sample_rate) ==
    FCeil(FMul(FromInt(n),
               FDiv(FromInt(target_sample_rate), FromInt(pcm_sample_rate), F64Bits),
               F64Bits))

(* an absent value read as zero *)
unwrap_or_zero(opt, default) == IF opt = None THEN 0 ELSE opt

unwrap_or(opt, default) == IF opt = None THEN default ELSE opt

(* a branch that resamples whenever a target rate is given *)
needs_resampling_if_given(source_rate, target_sample_rate) == target_sample_rate # None

(* the branch of decode / decode_f32 on target_sample_rate *)
needs_resampling(source_rate, target_sample_rate) ==
    target_sample_rate # None /\ source_rate # target_sample_rate

Cur == [pc |-> pc, load_result |-> load_result, loaded |-> loaded, dec |-> dec,
        final_buf |-> final_buf, rs |-> rs, resampler |-> resampler]

Apply(nx) ==
    /\ pc' = nx.pc
    /\ load_result' = nx.load_result
    /\ loaded' = nx.loaded
    /\ dec' = nx.dec
    /\ final_buf' = nx.final_buf
    /\ rs' = nx.rs
    /\ resampler' = nx.resampler
    /\ UNCHANGED <<fillVars, convVars, poolVars>>

Fail(st, err) == [st EXCEPT !.pc = "done", !.load_result = err]

(* Vec::new() for each of the n_channels channels *)
new_channels(n_channels) == [i \in 1..n_channels |-> 0]

(* extend_from_slice of `frames` frames on every channel *)
extend(buf, n) == [i \in 1..Len(buf) |-> buf[i] + n]

(* the assert_eq!(ch.len(), len) of DecodedAudio::new / DecodedAudioF32::new *)
lens_differ(buf) == \E i \in 1..Len(buf) : buf[i] # buf[1]

Returns(st, tag, rate) ==
    IF lens_differ(st.final_buf) THEN Fail(st, "Panic")
    ELSE [st EXCEPT !.pc = "done", !.load_result = "Ok",
                    !.loaded = [tag |-> tag, channels |-> Len(st.final_buf),
                                frames |-> st.final_buf[1], sample_rate |-> rate]]

(* next_packet() gave p; the decoder is run unless p is of another track, and
   a decoded packet moves the track on by its frames *)
Pulled(st, p) ==
    [st EXCEPT !.dec.pulled = @ + 1,
               !.dec.decode_calls = IF p.kind = "other_track" THEN @ ELSE @ + 1,
               !.dec.track_frames = IF p.kind = "ok" THEN @ + p.frames ELSE @,
               !.dec.missing = IF p.kind # "ok" THEN @
                               ELSE IF p.channels < req.n_channels
                               THEN req.n_channels - p.channels ELSE 0,
               !.dec.narrow = @ \/ (p.kind = "ok" /\ p.channels < req.n_channels)]

Ended(st, p) == [st EXCEPT !.dec.ended = p.kind]

(* The samples of a channel buffer, as runs of frames of the track: the run
   [chan, start, len] is frames start .. start + len - 1 of channel chan.
   Adjoining runs are written as one. *)
joined(runs, r) ==
    IF r.len = 0 THEN runs
    ELSE IF runs # << >> /\ runs[Len(runs)].chan = r.chan
                        /\ runs[Len(runs)].start + runs[Len(runs)].len = r.start
    THEN [runs EXCEPT ![Len(runs)].len = @ + r.len]
    ELSE Append(runs, r)

(* the packet's frames put in front of what is stored *)
push_frames_front(planes, start, n) ==
    [i \in 1..Len(planes) |->
        IF n = 0 THEN planes[i] ELSE <<[chan |-> i, start |-> start, len |-> n]>> \o planes[i]]

(* decoded_channels[i].extend_from_slice(packet.chan(i)) for every channel i:
   the packet holds the n frames of the track from `start` *)
push_frames(planes, start, n) ==
    [i \in 1..Len(planes) |-> joined(planes[i], [chan |-> i, start |-> start, len |-> n])]

(* a check of the total before the packet is counted *)
check_total_frames_late(st, packet_len) ==
    IF st.dec.total_frames > st.dec.max_frames
    THEN Fail([st EXCEPT !.dec.total_frames = @ + packet_len], "FileTooLarge")
    ELSE [st EXCEPT !.dec.total_frames = @ + packet_len]

(* *total_frames += packet_len; Err if *total_frames > max_frames *)
check_total_frames(st, packet_len) ==
    IF st.dec.total_frames + packet_len > st.dec.max_frames
    THEN Fail([st EXCEPT !.dec.total_frames = @ + packet_len], "FileTooLarge")
    ELSE [st EXCEPT !.dec.total_frames = @ + packet_len]

(* every channel of the buffers is written, whatever the packet holds *)
zipped_all(old, new, missing) == new

(* `for (a, b) in buffers.iter_mut().zip(packet_planes)`: the zip ends with
   the shorter side, so the last `missing` channels keep what they held *)
zipped(old, new, missing) ==
    [i \in 1..Len(old) |-> IF i <= Len(old) - missing THEN new[i] ELSE old[i]]

(* decode_u8_packet and its siblings, reached unless the check returned Err;
   packet.chan(i) panics for a channel the packet does not have *)
decode_packet(st, packet_len) ==
    IF st.load_result # "none" THEN st
    ELSE IF st.dec.missing > 0 THEN Fail(st, "Panic")
    ELSE [st EXCEPT !.final_buf = extend(@, packet_len),
                    !.dec.planes = push_frames(@, st.dec.track_frames - packet_len,
                                               packet_len)]

(* the first decoded packet, once allocated: check, append, remember its type *)
first_checked(st, file_frames, p) ==
    IF file_frames # None
    THEN IF file_frames > st.dec.max_frames THEN Fail(st, "FileTooLarge") ELSE st
    ELSE check_total_frames(st, p.frames)

first_decoded(st, p) ==
    IF st.load_result # "none" \/ st.dec.missing > 0 THEN decode_packet(st, p.frames)
    ELSE [decode_packet(st, p.frames) EXCEPT !.dec.first_packet = p.fmt,
                                             !.dec.stored = pushed(p.fmt), !.pc = "rest"]

first_allocated(st, n_channels, max_bytes, file_frames, p) ==
    [st EXCEPT !.final_buf = new_channels(n_channels),
               !.dec.planes = [i \in 1..n_channels |-> << >>],
               !.dec.capacity = unwrap_or(file_frames, 0),
               !.dec.max_frames = max_bytes \div (bytes_per_sample(p.fmt) * n_channels)]

(* decode_native_bitdepth: one turn of "Decode the first packet" *)
native_first(st, n_channels, max_bytes, file_frames, p) ==
    CASE p.kind \in {"end", "io_error"} ->
            Fail(Ended(st, p), "UnexpectedErrorWhileDecoding")
      [] p.kind \in {"other_track", "decode_error"} -> Pulled(st, p)
      [] p.kind = "fatal" -> Fail(Pulled(st, p), "ErrorWhileDecoding")
      [] p.kind = "ok" ->
            first_decoded(first_checked(first_allocated(Pulled(st, p), n_channels,
                                                        max_bytes, file_frames, p),
                                        file_frames, p),
                          p)

(* a loop that appends whatever sample format a later packet has *)
native_rest_any_format(st, source_rate, file_frames, p) ==
    CASE p.kind \in {"end", "io_error"} ->
            Returns(Ended(st, p), pcm_type(st.dec.first_packet), source_rate)
      [] p.kind \in {"other_track", "decode_error"} -> Pulled(st, p)
      [] p.kind = "fatal" -> Fail(Pulled(st, p), "ErrorWhileDecoding")
      [] p.kind = "ok" ->
            IF file_frames = None
            THEN decode_packet(check_total_frames(Pulled(st, p), p.frames), p.frames)
            ELSE decode_packet(Pulled(st, p), p.frames)

(* decode_native_bitdepth: one turn of the loop of the first packet's type *)
native_rest(st, source_rate, file_frames, p) ==
    CASE p.kind \in {"end", "io_error"} ->
            Returns(Ended(st, p), pcm_type(st.dec.first_packet), source_rate)
      [] p.kind \in {"other_track", "decode_error"} -> Pulled(st, p)
      [] p.kind = "fatal" -> Fail(Pulled(st, p), "ErrorWhileDecoding")
      [] p.kind = "ok" ->
            IF p.fmt # st.dec.first_packet
            THEN Fail(Pulled(st, p), "UnexpectedErrorWhileDecoding")
            ELSE IF file_frames = None
            THEN decode_packet(check_total_frames(Pulled(st, p), p.frames), p.frames)
            ELSE decode_packet(Pulled(st, p), p.frames)

(* the budget check of decode_f32 and decode_resampled after a packet *)
over_budget(st, file_frames) ==
    file_frames = None /\ st.final_buf[1] > st.dec.max_frames

f32_appended(st, file_frames) ==
    IF over_budget(st, file_frames) THEN Fail(st, "FileTooLarge") ELSE st

(* final_ch.extend_from_slice(&decoded_ch) over the zip of the two *)
f32_extended(st, start, n) ==
    [st EXCEPT !.dec.tmp_conversion_buf = "some",
               !.final_buf = zipped(@, extend(@, n), st.dec.missing),
               !.dec.planes = zipped(@, push_frames(@, start, n), st.dec.missing)]

(* a loop that gives up on the first packet that fails to decode *)
f32_packet_strict(st, source_rate, file_frames, p) ==
    CASE p.kind \in {"end", "io_error"} -> Returns(Ended(st, p), "F32", source_rate)
      [] p.kind = "other_track" -> Pulled(st, p)
      [] p.kind \in {"decode_error", "fatal"} -> Fail(Pulled(st, p), "ErrorWhileDecoding")
      [] p.kind = "ok" ->
            f32_appended(f32_extended(Pulled(st, p), st.dec.track_frames, p.frames),
                         file_frames)

(* decode_f32: one turn of the packet loop *)
f32_packet(st, source_rate, file_frames, p) ==
    CASE p.kind \in {"end", "io_error"} -> Returns(Ended(st, p), "F32", source_rate)
      [] p.kind \in {"other_track", "decode_error"} -> Pulled(st, p)
      [] p.kind = "fatal" -> Fail(Pulled(st, p), "ErrorWhileDecoding")
      [] p.kind = "ok" ->
            f32_appended(f32_extended(Pulled(st, p), st.dec.track_frames, p.frames),
                         file_frames)

(* Vec::resize(n, 0.0) of a channel held as runs: its first n frames, then
   zeros (a run of channel 0) if it was shorter *)
RECURSIVE resized(_, _)
resized(runs, n) ==
    IF n = 0 THEN << >>
    ELSE IF runs = << >> THEN <<[chan |-> 0, start |-> 0, len |-> n]>>
    ELSE IF Head(runs).len >= n THEN <<[Head(runs) EXCEPT !.len = n]>>
    ELSE <<Head(runs)>> \o resized(Tail(runs), n - Head(runs).len)

(* &ch[n..] of a channel held as runs: what follows its first n frames *)
RECURSIVE skipped(_, _)
skipped(runs, n) ==
    IF n = 0 \/ runs = << >> THEN runs
    ELSE IF Head(runs).len > n
    THEN <<[Head(runs) EXCEPT !.start = IF Head(runs).chan = 0 THEN 0 ELSE @ + n,
                              !.len = @ - n]>> \o Tail(runs)
    ELSE skipped(Tail(runs), n - Head(runs).len)

(* runs followed by more runs *)
RECURSIVE appended(_, _)
appended(runs, more) ==
    IF more = << >> THEN runs ELSE appended(joined(runs, Head(more)), Tail(more))

(* a channel with the n frames from index `at` replaced by the run r *)
overwritten(runs, at, r) ==
    appended(joined(resized(runs, at), r), skipped(runs, at + r.len))

(* tmp_ch[at..at + n].copy_from_slice(&decoded_ch[from..from + n]) on every
   channel: frames from.. of the track *)
copy_from_slice(buf, at, from, n) ==
    [i \in 1..Len(buf) |-> overwritten(buf[i], at, [chan |-> i, start |-> from, len |-> n])]

(* a flush that passes the staging buffer as it is *)
fill_nothing(buf, from, to) == buf

(* ch[from..to].fill(0.0) on every channel *)
fill(buf, from, to) ==
    [i \in 1..Len(buf) |-> overwritten(buf[i], from, [chan |-> 0, start |-> 0, len |-> to - from])]

(* what process_into_buffer reads: the first `chunk` frames of every channel
   of the buffer, after what it was given before *)
process_input(engine_in, buf, chunk) ==
    [i \in 1..Len(buf) |-> appended(engine_in[i], resized(buf[i], chunk))]

(* a closure that stops waiting for delayed output after the first chunk *)
resample_delay_once(st, engine, r) ==
    IF ~r.ok
    THEN Fail([st EXCEPT !.rs.engine_calls = @ + 1,
                         !.resampler = IF @ = "stale" THEN "stale" ELSE "used"],
              "ErrorWhileResampling")
    ELSE [st EXCEPT
            !.rs.engine_calls = @ + 1,
            !.rs.engine_out = @ + r.output_frames,
            !.resampler = IF @ = "stale" THEN "stale" ELSE "used",
            !.rs.engine_in = process_input(@, st.rs.tmp_resampler_in_buf,
                                           st.rs.desired_tmp_in_frames),
            !.rs.delay_frames_left = 0,
            !.final_buf =
                IF st.rs.delay_frames_left >= r.output_frames THEN @
                ELSE extend(@, r.output_frames - st.rs.delay_frames_left),
            !.dec.planes =
                IF st.rs.delay_frames_left >= r.output_frames THEN @
                ELSE push_frames(@, st.rs.engine_out + st.rs.delay_frames_left,
                                 r.output_frames - st.rs.delay_frames_left),
            !.rs.desired_tmp_in_frames = engine.chunk,
            !.rs.tmp_resampler_in_len = 0]

(* the closure `resample` of decode_resampled: one process_into_buffer. The
   chunk the engine writes is the next r.output_frames frames of its output
   (rs.engine_out counts them); final_buf holds runs of those frames. *)
resample(st, engine, r) ==
    IF ~r.ok
    THEN Fail([st EXCEPT !.rs.engine_calls = @ + 1,
                         !.resampler = IF @ = "stale" THEN "stale" ELSE "used"],
              "ErrorWhileResampling")
    ELSE [st EXCEPT
            !.rs.engine_calls = @ + 1,
            !.rs.engine_out = @ + r.output_frames,
            !.resampler = IF @ = "stale" THEN "stale" ELSE "used",
            !.rs.engine_in = process_input(@, st.rs.tmp_resampler_in_buf,
                                           st.rs.desired_tmp_in_frames),
            !.rs.delay_frames_left =
                IF @ >= r.output_frames THEN @ - r.output_frames ELSE 0,
            !.final_buf =
                IF st.rs.delay_frames_left >= r.output_frames THEN @
                ELSE extend(@, r.output_frames - st.rs.delay_frames_left),
            !.dec.planes =
                IF st.rs.delay_frames_left >= r.output_frames THEN @
                ELSE push_frames(@, st.rs.engine_out + st.rs.delay_frames_left,
                                 r.output_frames - st.rs.delay_frames_left),
            !.rs.desired_tmp_in_frames = engine.chunk,
            !.rs.tmp_resampler_in_len = 0]

(* after the staging loop of a packet: budget check, total_in_frames *)
after_packet(st, file_frames) ==
    IF over_budget(st, file_frames) THEN Fail(st, "FileTooLarge")
    ELSE [st EXCEPT !.rs.total_in_frames = @ + st.rs.decoded_frames,
                    !.rs.decoded_frames = 0,
                    !.rs.total_copied_frames = 0,
                    !.pc = "packets"]

(* a copy of all that is left of the packet, whatever room the chunk has *)
copy_frames_all(st) == st.rs.decoded_frames - st.rs.total_copied_frames

copy_frames(st) ==
    Min(st.rs.decoded_frames - st.rs.total_copied_frames,
        st.rs.desired_tmp_in_frames - st.rs.tmp_resampler_in_len)

copied(st, n, file_frames) ==
    IF st.load_result # "none" THEN st
    ELSE IF st.rs.total_copied_frames + n < st.rs.decoded_frames
    THEN [st EXCEPT !.rs.total_copied_frames = @ + n]
    ELSE after_packet([st EXCEPT !.rs.total_copied_frames = @ + n], file_frames)

staged(st, engine, r) ==
    IF st.rs.tmp_resampler_in_len = st.rs.desired_tmp_in_frames
    THEN resample(st, engine, r)
    ELSE st

(* one turn of `while total_copied_frames < decoded_frames` *)
stage_copy(st, engine, file_frames, r) ==
    copied(staged([st EXCEPT
                      !.rs.tmp_resampler_in_buf =
                          zipped(@, copy_from_slice(@, st.rs.tmp_resampler_in_len,
                                                    st.dec.track_frames - st.rs.decoded_frames
                                                        + st.rs.total_copied_frames,
                                                    copy_frames(st)),
                                 st.dec.missing),
                      !.rs.tmp_resampler_in_len = @ + copy_frames(st)],
                  engine, r),
           copy_frames(st), file_frames)

decoded(st, n_frames, file_frames) ==
    IF n_frames = 0
    THEN after_packet([st EXCEPT !.dec.tmp_conversion_buf = "some"], file_frames)
    ELSE [st EXCEPT !.dec.tmp_conversion_buf = "some",
                    !.rs.decoded_frames = n_frames, !.rs.total_copied_frames = 0,
                    !.pc = "copy"]

(* decode_resampled: one turn of the packet loop, and what follows its end *)
resampled_packet(st, pcm_sample_rate, target_sample_rate, file_frames, p) ==
    CASE p.kind \in {"end", "io_error"} ->
            [Ended(st, p) EXCEPT
                !.rs.total_frames =
                    target_len(st.rs.total_in_frames, target_sample_rate, pcm_sample_rate),
                !.pc = IF st.rs.tmp_resampler_in_len > 0 THEN "flush" ELSE "drain"]
      [] p.kind \in {"other_track", "decode_error"} -> Pulled(st, p)
      [] p.kind = "fatal" -> Fail(Pulled(st, p), "ErrorWhileDecoding")
      [] p.kind = "ok" -> decoded(Pulled(st, p), p.frames, file_frames)

flushed(st) == IF st.load_result # "none" THEN st ELSE [st EXCEPT !.pc = "drain"]

(* "Zero-pad remaining samples" *)
zero_padded(st) ==
    [st EXCEPT !.rs.tmp_resampler_in_buf =
                   fill(@, st.rs.tmp_resampler_in_len, st.rs.desired_tmp_in_frames)]

(* "Clear samples" *)
cleared(st) ==
    [st EXCEPT !.rs.tmp_resampler_in_buf = fill(@, 0, st.rs.desired_tmp_in_frames)]

(* ch.resize(total_frames, 0.0) on every channel *)
truncated(st) ==
    [st EXCEPT !.final_buf = [i \in 1..Len(@) |-> st.rs.total_frames],
               !.dec.planes = [i \in 1..Len(@) |-> resized(@[i], st.rs.total_frames)]]

declared_too_large(file_frames, max_frames) ==
    file_frames # None /\ file_frames > max_frames

Started(entry, path, source_rate, target_sample_rate, n_channels, max_bytes, file_frames, engine) ==
    req' = [entry |-> entry, path |-> path, sample_rate |-> source_rate,
            target_sample_rate |-> target_sample_rate, n_channels |-> n_channels,
            max_bytes |-> max_bytes, file_frames |-> file_frames, engine |-> engine]

MaxBytes == unwrap_or(req.max_bytes, DEFAULT_MAX_BYTES)

(* decode_f32 up to its packet loop *)
f32_start(st, n_channels, max_bytes, file_frames) ==
    IF declared_too_large(file_frames, max_bytes \div (4 * n_channels))
    THEN Fail([st EXCEPT !.dec.max_frames = max_bytes \div (4 * n_channels)],
              "FileTooLarge")
    ELSE [st EXCEPT !.dec.max_frames = max_bytes \div (4 * n_channels),
                    !.dec.capacity = unwrap_or(file_frames, 44100),
                    !.dec.planes = [i \in 1..n_channels |-> << >>],
                    !.final_buf = new_channels(n_channels),
                    !.pc = "packets"]

(* The ways load and load_f32 name an engine. Low, Normal and High take one
   from the loader's pool, built for the source's channel count; Custom
   carries the caller's engine. *)
ResampleQuality == {"Low", "Normal", "High", "Custom"}

(* get_resampler of the loader: "todo" is the todo!() it runs, a panic, when
   a Custom engine has the wrong channel count. *)
get_resampler(quality, n_channels, engine) ==
    IF quality = "Custom" /\ engine.num_channels # n_channels THEN "todo" ELSE "engine"

(* a decode_resampled that uses the engine as it finds it *)
reset_skipped(st) == st

(* resampler.reset(), the first statement of decode_resampled: the engine
   forgets the frames it was given *)
reset(st) == [st EXCEPT !.resampler = "clean"]

(* resample() of lib.rs, then decode_resampled up to its packet loop *)
resampled_start(st, source_rate, target_sample_rate, n_channels, max_bytes, file_frames, engine) ==
    IF engine.num_channels # n_channels THEN Fail(st, "InvalidResampler")
    ELSE IF declared_too_large(file_frames, max_bytes \div (4 * n_channels))
    THEN Fail([reset(st) EXCEPT !.dec.max_frames = max_bytes \div (4 * n_channels)],
              "FileTooLarge")
    ELSE [reset(st) EXCEPT
            !.dec.max_frames = max_bytes \div (4 * n_channels),
            !.dec.capacity =
                target_len(unwrap_or(file_frames, 44100), target_sample_rate, source_rate)
                    + engine.output_frames_max,
            !.final_buf = new_channels(n_channels),
            !.dec.planes = [i \in 1..n_channels |-> << >>],
            !.rs.tmp_resampler_in_buf =
                [i \in 1..n_channels |-> <<[chan |-> 0, start |-> 0, len |-> engine.chunk]>>],
            !.rs.engine_in = [i \in 1..n_channels |-> << >>],
            !.rs.desired_tmp_in_frames = engine.chunk,
            !.rs.delay_frames_left = engine.output_delay,
            !.pc = "packets"]

StartNative ==
    /\ pc = "idle"
    /\ \E sr \in SourceRates, target \in TargetRates, n \in ChannelChoices,
          mb \in MaxBytesChoices, ff \in DeclaredFrames :
         /\ ~needs_resampling(sr, target)
         /\ Started("load", "native", sr, target, n, mb, ff, IdleReq.engine)
         /\ Apply([Cur EXCEPT !.pc = "first"])

StartF32 ==
    /\ pc = "idle"
    /\ \E sr \in SourceRates, target \in TargetRates, n \in ChannelChoices,
          mb \in MaxBytesChoices, ff \in DeclaredFrames :
         /\ ~needs_resampling(sr, target)
         /\ Started("load_f32", "f32", sr, target, n, mb, ff, IdleReq.engine)
         /\ Apply(f32_start(Cur, n, unwrap_or(mb, DEFAULT_MAX_BYTES), ff))

StartResampled ==
    /\ pc = "idle"
    /\ \E entry \in {"load", "load_f32"}, sr \in SourceRates, target \in TargetRates,
          n \in ChannelChoices, mb \in MaxBytesChoices, ff \in DeclaredFrames,
          quality \in ResampleQuality, engine \in Engines :
         /\ needs_resampling(sr, target)
         /\ quality # "Custom" => engine.num_channels = n
         /\ Started(entry, "resampled", sr, target, n, mb, ff, engine)
         /\ Apply(IF get_resampler(quality, n, engine) = "todo" THEN Fail(Cur, "panic")
                  ELSE resampled_start(Cur, sr, target, n,
                                       unwrap_or(mb, DEFAULT_MAX_BYTES), ff, engine))

(* load_with_resampler, load_f32_with_resampler and their *_from_source
   forms: the engine is whatever the caller's callback hands back. *)
StartWithResampler ==
    /\ pc = "idle"
    /\ \E entry \in {"load", "load_f32"}, sr \in SourceRates, target \in TargetRates,
          n \in ChannelChoices, mb \in MaxBytesChoices, ff \in DeclaredFrames,
          engine \in Engines :
         /\ needs_resampling(sr, target)
         /\ Started(entry, "resampled", sr, target, n, mb, ff, engine)
         /\ Apply(resampled_start(Cur, sr, target, n,
                                  unwrap_or(mb, DEFAULT_MAX_BYTES), ff, engine))

NativeFirstPacket ==
    /\ pc = "first"
    /\ \E p \in PacketOutcomes :
         /\ StreamGives(p)
         /\ Apply(native_first(Cur, req.n_channels, MaxBytes, req.file_frames, p))
    /\ UNCHANGED req

NativeNextPacket ==
    /\ pc = "rest"
    /\ \E p \in PacketOutcomes :
         /\ StreamGives(p)
         /\ Apply(native_rest(Cur, req.sample_rate, req.file_frames, p))
    /\ UNCHANGED req

F32Packet ==
    /\ pc = "packets"
    /\ req.path = "f32"
    /\ \E p \in PacketOutcomes :
         /\ StreamGives(p)
         /\ Apply(f32_packet(Cur, req.sample_rate, req.file_frames, p))
    /\ UNCHANGED req

ResampledPacket ==
    /\ pc = "packets"
    /\ req.path = "resampled"
    /\ \E p \in PacketOutcomes :
         /\ StreamGives(p)
         /\ Apply(resampled_packet(Cur, req.sample_rate, req.target_sample_rate,
                                   req.file_frames, p))
    /\ UNCHANGED req

EngineAnswers == rs.engine_calls < MaxEngineCalls

StageCopy ==
    /\ pc = "copy"
    /\ EngineAnswers
    /\ \E r \in EngineResults : Apply(stage_copy(Cur, req.engine, req.file_frames, r))
    /\ UNCHANGED req

(* "Process any leftover samples": the zero-padded last chunk *)
Flush ==
    /\ pc = "flush"
    /\ EngineAnswers
    /\ \E r \in EngineResults : Apply(flushed(resample(zero_padded(Cur), req.engine, r)))
    /\ UNCHANGED req

(* a drain loop that also runs when the output has just reached the target *)
short_or_equal(st) == st.final_buf[1] <= st.rs.total_frames

(* `while final_buf[0].len() < total_frames` *)
short_of_target(st) == st.final_buf[1] < st.rs.total_frames

(* "Extract any leftover samples from the resampler" *)
Drain ==
    /\ pc = "drain"
    /\ short_of_target(Cur)
    /\ EngineAnswers
    /\ \E r \in EngineResults : Apply(resample(cleared(Cur), req.engine, r))
    /\ UNCHANGED req

(* "Truncate the extra padded data", DecodedAudioF32::new, and into() *)
Truncate ==
    /\ pc = "drain"
    /\ ~short_of_target(Cur)
    /\ Apply(Returns(truncated(Cur), "F32", req.target_sample_rate))
    /\ UNCHANGED req

(* the caller takes the returned value; the loader is ready for a new load.
   The engine stays in the pool (or with the caller) as the load left it. *)
Return ==
    /\ pc = "done"
    /\ req' = IdleReq
    /\ Apply([pc |-> "idle", load_result |-> "none", loaded |-> "none",
              dec |-> IdleDec, final_buf |-> << >>, rs |-> IdleRs,
              resampler |-> IF resampler = "clean" THEN "clean" ELSE "stale"])

InitLoad ==
    /\ LoadIdle
    /\ target_endian = "little"
    /\ resource = DecodedAudio_new([tag |-> "F32", pcm |-> << << >> >>], 44100)
    /\ buf_l = << >>
    /\ buf_r = << >>
    /\ call = NoCall
    /\ conv = NoConv
    /\ PoolIdle

NextLoad ==
    \/ StartNative
    \/ StartF32
    \/ StartResampled
    \/ StartWithResampler
    \/ NativeFirstPacket
    \/ NativeNextPacket
    \/ F32Packet
    \/ ResampledPacket
    \/ StageCopy
    \/ Flush
    \/ Drain
    \/ Truncate
    \/ Return

SpecLoad == InitLoad /\ [][NextLoad]_vars

(* A resampled load with an engine that makes progress while the output is
   drained: every call that succeeds writes at least one frame. *)
ProductiveResults == {r \in EngineResults : r.ok => r.output_frames >= 1}

(* the drain loop with such an engine; it needs no bound on the calls *)
DrainProductive ==
    /\ pc = "drain"
    /\ short_of_target(Cur)
    /\ \E r \in ProductiveResults : Apply(resample(cleared(Cur), req.engine, r))
    /\ UNCHANGED req

NextDrain ==
    \/ StartResampled
    \/ StartWithResampler
    \/ ResampledPacket
    \/ StageCopy
    \/ Flush
    \/ DrainProductive
    \/ Truncate
    \/ Return

(* decode_resampled runs on the caller's thread: once in the drain loop it
   takes the loop's next turn, and past the loop it returns *)
SpecDrain ==
    InitLoad /\ [][NextDrain]_vars /\ WF_vars(DrainProductive) /\ WF_vars(Truncate)

(***************************************************************************)
(* Properties of a load.                                                   *)
(***************************************************************************)
(* ceil(a / b) in exact integer arithmetic *)
ExactCeil(a, b) == (a + b - 1) \div b

ResampledOk == req.path = "resampled" /\ load_result = "Ok"

(* C8: a resampled load that succeeds returns, on every channel, exactly
   ceil(total_in_frames * target_rate / source_rate) frames, total_in_frames
   being the frames of all decoded packets of the selected track. *)
C8_ResampledLengthIsExactCeil ==
    ResampledOk =>
        \A i \in 1..Len(final_buf) :
            final_buf[i] = ExactCeil(rs.total_in_frames * req.target_sample_rate,
                                     req.sample_rate)

(* bytes held by the channels accumulated so far in a native load *)
NativeBytes == final_buf[1] * bytes_per_sample(dec.first_packet) * req.n_channels

(* C9: at every point of a native load, whatever the stream declares, the
   accumulated frames * bytes_per_sample * channels stay within max_bytes;
   a stream over the budget ends in FileTooLarge, never in a result. *)
C9_NativeStaysWithinBudget ==
    (req.path = "native" /\ dec.first_packet # "none") => NativeBytes <= MaxBytes

(* the smallest sample size the load path can store *)
LeastSampleBytes == IF req.path = "native" THEN bytes_per_sample("U8") ELSE 4

DeclaredOverBudget ==
    /\ req.file_frames # None
    /\ dec.ended = "no"
    /\ req.file_frames * LeastSampleBytes * req.n_channels > MaxBytes
    /\ req.path = "resampled" => req.engine.num_channels = req.n_channels

(* C10: on every load path, a declared frame count whose size exceeds
   max_bytes makes the load of a stream that still has packets fail with
   FileTooLarge, and the decoder has decoded no packet when it fails. *)
C10_DeclaredOverBudgetFailsBeforeDecoding ==
    (pc = "done" /\ DeclaredOverBudget) =>
        /\ load_result = "FileTooLarge"
        /\ dec.decode_calls = 0

(* C11: a resampled load that succeeds returns output_frames * 4 * channels
   bytes within max_bytes, whether or not the track declares its frame
   count; an output over the budget ends in FileTooLarge instead. *)
C11_ResampledOutputWithinBudget ==
    ResampledOk => final_buf[1] * 4 * req.n_channels <= MaxBytes

NativeLoad == req.path = "native"

(* what a turn of the loop leaves when it rejects its packet *)
Rejected(st) ==
    st.pc = "done" /\ st.load_result = "UnexpectedErrorWhileDecoding" /\ st.loaded = "none"

OtherFormatPackets ==
    {p \in PacketOutcomes : p.kind = "ok" /\ p.fmt # dec.first_packet /\ StreamGives(p)}

(* the tag is unset until a packet decodes, a packet of another format is
   rejected, and a returned resource carries the first packet's tag *)
TagIsFirstPackets ==
    /\ (NativeLoad /\ pc = "first") => dec.first_packet = "none"
    /\ (NativeLoad /\ pc = "rest") =>
          /\ dec.first_packet \in SampleFormats
          /\ \A p \in OtherFormatPackets :
                Rejected(native_rest(Cur, req.sample_rate, req.file_frames, p))
    /\ (NativeLoad /\ load_result = "Ok") => loaded.tag = pcm_type(dec.first_packet)
    /\ (NativeLoad /\ pc = "done" /\ load_result # "Ok") => loaded = "none"

TagKept ==
    (NativeLoad /\ dec.first_packet # "none" /\ pc' # "idle") =>
        dec'.first_packet = dec.first_packet

(* C12: in a native load the first decoded packet sets the encoding, the
   encoding never changes afterwards, and a later decoded packet of another
   encoding ends the load with UnexpectedErrorWhileDecoding and no resource. *)
C12_EncodingFixedByFirstPacket == []TagIsFirstPackets /\ [][TagKept]_vars

C12_Witness ==
    /\ NativeLoad
    /\ pc = "done"
    /\ dec.first_packet # "none"
    /\ dec.pulled >= 2
    /\ load_result = "UnexpectedErrorWhileDecoding"

InPacketLoop == pc \in {"first", "rest", "packets"}

(* the turn of the packet loop the load is in, on outcome p, from state st *)
LoopTurn(st, p) ==
    CASE st.pc = "first" ->
            native_first(st, req.n_channels, MaxBytes, req.file_frames, p)
      [] st.pc = "rest" -> native_rest(st, req.sample_rate, req.file_frames, p)
      [] st.pc = "packets" /\ req.path = "f32" ->
            f32_packet(st, req.sample_rate, req.file_frames, p)
      [] st.pc = "packets" /\ req.path = "resampled" ->
            resampled_packet(st, req.sample_rate, req.target_sample_rate,
                             req.file_frames, p)
      [] OTHER -> st

DecodeErrorPacket == [kind |-> "decode_error", fmt |-> "none", frames |-> 0, channels |-> 0]

(* st with the packet counters of the loop set aside *)
ButCounters(st) == [st EXCEPT !.dec.pulled = 0, !.dec.decode_calls = 0]

(* C13: a packet with a recoverable decode error does not end the load and
   adds no frame: the turn that meets it changes only the loop's packet
   counters, and every later turn does what it does without that packet, so
   the load returns what the stream without the packet returns. *)
C13_DecodeErrorIsSkipped ==
    (InPacketLoop /\ StreamGives(DecodeErrorPacket)) =>
        /\ LoopTurn(Cur, DecodeErrorPacket) =
              [Cur EXCEPT !.dec.pulled = @ + 1, !.dec.decode_calls = @ + 1]
        /\ \A q \in PacketOutcomes :
              ButCounters(LoopTurn(LoopTurn(Cur, DecodeErrorPacket), q))
                  = ButCounters(LoopTurn(Cur, q))

C13_Witness ==
    /\ NativeLoad
    /\ pc = "first"
    /\ dec.decode_calls >= 1
    /\ load_result = "none"
    /\ StreamGives(DecodeErrorPacket)

(* no packet of the selected track has decoded: the native loop has no
   first packet, the f32 loops never made their conversion buffer *)
NoPacketDecoded ==
    IF NativeLoad THEN dec.first_packet = "none" ELSE dec.tmp_conversion_buf = "none"

StreamEnded == dec.ended # "no"

(* C14: on every load path, when the packet source ends and no packet has
   decoded, the load returns an error and no resource. *)
C14_EmptyStreamIsAnError ==
    (pc = "done" /\ StreamEnded /\ NoPacketDecoded) =>
        /\ load_result # "Ok"
        /\ loaded = "none"

(* C15: a packet source that stops with an error other than the end of the
   stream aborts the load: the load returns an error and no resource, never
   Ok with the frames accumulated so far. *)
C15_SourceErrorAbortsLoad ==
    (pc = "done" /\ dec.ended = "io_error") =>
        /\ load_result # "Ok"
        /\ loaded = "none"

(* the engine handed to a resampled load has another channel count than
   the source *)
EngineMismatch == req.path = "resampled" /\ req.engine.num_channels # req.n_channels

(* C16: a load whose engine has another channel count than the source ends
   at once with the channel-mismatch error, no packet pulled or decoded and
   the engine never called, whichever way the engine was supplied. *)
C16_MismatchedEngineIsRejected ==
    (EngineMismatch /\ pc # "idle") =>
        /\ pc = "done"
        /\ load_result = "InvalidResampler"
        /\ loaded = "none"
        /\ dec = IdleDec
        /\ rs = IdleRs

(* the caller gave a target rate and it is not the source's rate *)
TargetDiffers == req.target_sample_rate # None /\ req.target_sample_rate # req.sample_rate

EngineUntouched == req.engine = IdleReq.engine /\ rs = IdleRs

(* C17: a load goes through the engine exactly when a target rate is given
   and differs from the source rate, and then an Ok result is F32 at the
   target rate; otherwise no engine is asked for or called, an Ok result
   has the source rate, load keeps the encoding of the packets and
   load_f32 gives F32. *)
C17_ResamplesIffTargetDiffers ==
    pc # "idle" =>
        /\ req.path = "resampled" <=> TargetDiffers
        /\ (req.path = "resampled" /\ load_result = "Ok") =>
              loaded.tag = "F32" /\ loaded.sample_rate = req.target_sample_rate
        /\ req.path # "resampled" =>
              /\ EngineUntouched
              /\ req.path = (IF req.entry = "load" THEN "native" ELSE "f32")
              /\ load_result = "Ok" =>
                    /\ loaded.sample_rate = req.sample_rate
                    /\ loaded.tag = (IF NativeLoad THEN pcm_type(dec.first_packet) ELSE "F32")

C17_Witness ==
    /\ pc = "done" /\ req.entry = "load" /\ req.path = "resampled" /\ load_result = "Ok"
    /\ loaded.tag = "F32" /\ loaded.sample_rate = 48000 /\ req.sample_rate = 44100
    /\ rs.engine_calls >= 1

(* the byte budget of the running load, as the caller stated it *)
Budget == IF req.max_bytes = None THEN 1000000000 ELSE req.max_bytes

(* bytes of one stored sample: 4 on the f32 and resampled paths, the width
   of the first packet's encoding on the native path *)
SampleSizes ==
    IF ~NativeLoad THEN {4}
    ELSE IF dec.first_packet # "none" THEN {bytes_per_sample(dec.first_packet)}
    ELSE {bytes_per_sample(f) : f \in SampleFormats}

(* the load has worked out its frame limit *)
LimitSet ==
    IF NativeLoad THEN dec.first_packet # "none" \/ load_result = "FileTooLarge"
    ELSE pc # "idle" /\ ~EngineMismatch

(* C18: on every path the frame limit is the stated budget, or 1,000,000,000
   when none is stated, divided by the bytes of one frame; and FileTooLarge
   is returned only for a declared or decoded length beyond that limit. *)
C18_BudgetDefaultsToOneGigabyte ==
    (pc # "idle" /\ LimitSet) =>
        /\ dec.max_frames \in {Budget \div (b * req.n_channels) : b \in SampleSizes}
        /\ load_result = "FileTooLarge" =>
              \/ req.file_frames # None /\ req.file_frames > dec.max_frames
              \/ dec.total_frames > dec.max_frames
              \/ final_buf # <<>> /\ final_buf[1] > dec.max_frames

C18_Witness ==
    /\ pc = "done" /\ req.max_bytes = None /\ req.path = "resampled" /\ load_result = "Ok"
    /\ req.n_channels = 2 /\ dec.max_frames = 125000000 /\ loaded.frames > 100

(* frames 0 .. n - 1 of channel ch of the track, in order *)
WholeTrack(ch, n) == IF n = 0 THEN << >> ELSE <<[chan |-> ch, start |-> 0, len |-> n]>>

(* a native or f32 load that has its channel buffers and has not failed,
   of packets that have every channel of the track *)
Accumulating ==
    /\ req.path \in {"native", "f32"}
    /\ load_result \in {"none", "Ok"}
    /\ dec.planes # << >>
    /\ ~dec.narrow

SkippedPackets ==
    {p \in PacketOutcomes : p.kind \in {"other_track", "decode_error"} /\ StreamGives(p)}

(* C23: in a native or f32 load every channel buffer holds, in order and
   once each, the frames of that channel of all packets decoded so far and
   nothing else; a packet of another track or one with a recoverable decode
   error leaves the buffers as they are; the value returned has all of them. *)
C23_ChannelsAreThePacketsInOrder ==
    Accumulating =>
        /\ Len(dec.planes) = req.n_channels
        /\ \A ch \in 1..req.n_channels :
              /\ dec.planes[ch] = WholeTrack(ch, dec.track_frames)
              /\ final_buf[ch] = dec.track_frames
        /\ InPacketLoop => \A p \in SkippedPackets :
              /\ LoopTurn(Cur, p).dec.planes = dec.planes
              /\ LoopTurn(Cur, p).final_buf = final_buf
        /\ load_result = "Ok" =>
              loaded.frames = dec.track_frames /\ loaded.channels = req.n_channels

C23_Witness ==
    /\ req.path = "native" /\ pc = "done" /\ load_result = "Ok"
    /\ req.n_channels = 2
    /\ dec.pulled = 3 /\ dec.decode_calls = 2
    /\ dec.planes[2] = <<[chan |-> 2, start |-> 0, len |-> 147]>>

(* a native load of a track that declares no frame count, in its packet loop *)
UndeclaredNative == NativeLoad /\ req.file_frames = None

(* the packets of the track that the loop would append, with every channel
   of the track: any format while the first is awaited, the first packet's
   format afterwards *)
TrackPackets ==
    {p \in PacketOutcomes :
        /\ p.kind = "ok" /\ StreamGives(p)
        /\ p.channels >= req.n_channels
        /\ pc = "rest" => p.fmt = dec.first_packet}

FrameLimit(fmt) == Budget \div (bytes_per_sample(fmt) * req.n_channels)

AppendedFrames(st) == IF st.final_buf = << >> THEN 0 ELSE st.final_buf[1]

(* C24: with no declared frame count, a native load fails with FileTooLarge
   at the first decoded packet that takes the running total over
   max_bytes / (bytes_per_sample * channels); that packet is not appended
   and the load is over, so no packet is pulled after it. A packet that
   keeps the total within the limit is appended and the load goes on. *)
C24_FailsAtFirstPacketOverLimit ==
    UndeclaredNative =>
        /\ load_result = "FileTooLarge" =>
              /\ pc = "done"
              /\ dec.total_frames > dec.max_frames
              /\ AppendedFrames(Cur) <= dec.max_frames
        /\ load_result = "none" => dec.total_frames = AppendedFrames(Cur)
        /\ pc \in {"first", "rest"} => \A p \in TrackPackets :
              IF dec.total_frames + p.frames > FrameLimit(p.fmt)
              THEN /\ LoopTurn(Cur, p).load_result = "FileTooLarge"
                   /\ LoopTurn(Cur, p).pc = "done"
                   /\ AppendedFrames(LoopTurn(Cur, p)) = AppendedFrames(Cur)
              ELSE /\ LoopTurn(Cur, p).load_result = "none"
                   /\ LoopTurn(Cur, p).pc = "rest"
                   /\ AppendedFrames(LoopTurn(Cur, p)) = AppendedFrames(Cur) + p.frames

C24_Witness ==
    /\ UndeclaredNative /\ pc = "done" /\ load_result = "FileTooLarge"
    /\ dec.pulled >= 2
    /\ final_buf[1] > 0
    /\ final_buf[1] <= dec.max_frames
    /\ dec.total_frames > dec.max_frames

(* bytes held in the channel buffers of the load *)
StoredBytes ==
    IF final_buf = << >> THEN 0
    ELSE final_buf[1] * req.n_channels
           * (IF NativeLoad THEN bytes_per_sample(dec.first_packet) ELSE 4)

(* C25: while the packet source goes on giving packets, a load on any path
   (frame count declared or not) is stopped with FileTooLarge once its
   packets take it over the budget: a load still waiting for the next packet
   never holds more than max_bytes. *)
C25_EndlessStreamHitsTheBudget ==
    (InPacketLoop /\ load_result = "none") => StoredBytes <= Budget

(* a resampled load between its start and the truncation of its output *)
Resampling ==
    /\ req.path = "resampled"
    /\ pc \in {"packets", "copy", "flush", "drain"}

(* engine output frames dropped as delay so far *)
Discarded == rs.engine_out - final_buf[1]

(* the engine's output from frame `from` on, as far as it has got *)
EngineOutputFrom(ch, from) ==
    IF rs.engine_out <= from THEN << >>
    ELSE <<[chan |-> ch, start |-> from, len |-> rs.engine_out - from]>>

GoodResults == {r \in EngineResults : r.ok}

(* C26: in a resampled load the delay counter starts at the engine's
   output_delay and no engine call raises it; the frames dropped so far plus
   the counter are output_delay; what has been emitted is the engine's
   chunks end to end without their first output_delay frames; and a chunk
   the counter covers entirely emits nothing. *)
C26_DelayIsDroppedOnce ==
    Resampling =>
        /\ rs.engine_calls = 0 => rs.delay_frames_left = req.engine.output_delay
        /\ rs.delay_frames_left >= 0
        /\ Discarded + rs.delay_frames_left = req.engine.output_delay
        /\ \A ch \in 1..req.n_channels :
              dec.planes[ch] = EngineOutputFrom(ch, req.engine.output_delay)
        /\ \A r \in GoodResults :
              /\ resample(Cur, req.engine, r).rs.delay_frames_left <= rs.delay_frames_left
              /\ r.output_frames <= rs.delay_frames_left =>
                    resample(Cur, req.engine, r).final_buf = final_buf

C26_Witness ==
    /\ Resampling
    /\ req.engine.output_delay = 50
    /\ rs.engine_calls = 2
    /\ rs.engine_out = 110
    /\ rs.delay_frames_left = 0
    /\ dec.planes[1] = <<[chan |-> 1, start |-> 50, len |-> 60]>>

(* the load as it stands when the engine is called next: in the staging loop
   the frames of this turn are copied first *)
AtCall ==
    IF pc = "copy" THEN [Cur EXCEPT !.rs.tmp_resampler_in_len = @ + copy_frames(Cur)]
    ELSE Cur

(* the next step calls the engine on staged input *)
CallDue ==
    /\ req.path = "resampled"
    /\ \/ pc = "flush"
       \/ pc = "copy" /\ AtCall.rs.tmp_resampler_in_len = rs.desired_tmp_in_frames

(* C28: after an engine call the load has appended the reported output
   frames less the delay dropped, and the staged input has gone down by the
   reported input frames: frames reported as not used stay staged. *)
C28_ReportedCountsAreUsed ==
    CallDue => \A r \in GoodResults :
        /\ resample(AtCall, req.engine, r).final_buf[1] - final_buf[1]
             = r.output_frames
                 - (rs.delay_frames_left
                      - resample(AtCall, req.engine, r).rs.delay_frames_left)
        /\ resample(AtCall, req.engine, r).rs.tmp_resampler_in_len
             = (IF AtCall.rs.tmp_resampler_in_len > r.input_frames
                THEN AtCall.rs.tmp_resampler_in_len - r.input_frames ELSE 0)

(* a resampled load past resampler.reset(): it has asked the engine for its
   chunk size and delay, and may have called it *)
EngineInUse ==
    /\ req.path = "resampled"
    /\ \/ pc \in {"packets", "copy", "flush", "drain"}
       \/ rs.engine_calls > 0

(* C27: a resampled load that has reached the engine's queries holds an
   engine that was reset: it has nothing of an earlier load in it, and once
   called it holds frames of this load only. Whatever an earlier load left in
   the engine, a load that gets as far as decode_resampled starts as it would
   with a clean engine. *)
C27_EngineResetBeforeUse ==
    /\ EngineInUse =>
          /\ resampler # "stale"
          /\ (rs.engine_calls > 0) = (resampler = "used")
    /\ pc = "idle" =>
          \A e \in Engines, n \in ChannelChoices, mb \in {100, 600}, ff \in DeclaredFrames :
             e.num_channels = n =>
                resampled_start(Cur, 44100, 48000, n, mb, ff, e)
                  = resampled_start([Cur EXCEPT !.resampler = "clean"], 44100, 48000, n, mb, ff, e)

(* an earlier load left frames in the engine, and a load that starts now
   goes on to the packet loop with the engine clean *)
C27_Witness ==
    /\ pc = "idle"
    /\ resampler = "stale"
    /\ \E e \in Engines :
          /\ resampled_start(Cur, 44100, 48000, 1, 600, None, e).pc = "packets"
          /\ resampled_start(Cur, 44100, 48000, 1, 600, None, e).resampler = "clean"

(* frames 0..n-1 of channel i of the track, as a channel holds them *)
TrackFrames(i, n) == IF n = 0 THEN << >> ELSE <<[chan |-> i, start |-> 0, len |-> n]>>

OnlyZeros(runs) == \A k \in 1..Len(runs) : runs[k].chan = 0

(* the number of frames the engine has been given on channel i *)
GivenFrames(i) == rs.engine_calls * rs.desired_tmp_in_frames

(* a resampled load past its start, of packets that have every channel of
   the track *)
Staging == req.path = "resampled" /\ rs.engine_in # << >> /\ ~dec.narrow

EndOfStreamPackets == {p \in PacketOutcomes : p.kind \in {"end", "io_error"}}

(* C29: while packets are decoded the engine has been given whole chunks
   that are the track's frames in order, and the staging buffer holds the
   frames that follow them; the flush is made exactly when 1..chunk-1 frames
   are staged; once the stream has ended the engine has been given every
   decoded frame once, in order, and after them only zeros. *)
C29_EachFrameGivenOnceInOrder ==
    Staging => \A i \in 1..Len(rs.engine_in) :
        /\ pc \in {"packets", "copy", "flush"} =>
              /\ rs.engine_in[i] = TrackFrames(i, GivenFrames(i))
              /\ resized(rs.tmp_resampler_in_buf[i], rs.tmp_resampler_in_len)
                   = (IF rs.tmp_resampler_in_len = 0 THEN << >>
                      ELSE <<[chan |-> i, start |-> GivenFrames(i),
                              len |-> rs.tmp_resampler_in_len]>>)
              /\ GivenFrames(i) + rs.tmp_resampler_in_len
                   = rs.total_in_frames + rs.total_copied_frames
              /\ rs.tmp_resampler_in_len < rs.desired_tmp_in_frames
        /\ pc = "flush" => rs.tmp_resampler_in_len >= 1
        /\ pc = "packets" =>
              \A p \in EndOfStreamPackets :
                 (resampled_packet(Cur, req.sample_rate, req.target_sample_rate,
                                   req.file_frames, p).pc = "flush")
                   = (rs.tmp_resampler_in_len >= 1)
        /\ (pc = "drain" \/ (pc = "done" /\ load_result = "Ok")) =>
              /\ resized(rs.engine_in[i], rs.total_in_frames)
                   = TrackFrames(i, rs.total_in_frames)
              /\ OnlyZeros(skipped(rs.engine_in[i], rs.total_in_frames))
              /\ rs.engine_in[i] = appended(TrackFrames(i, rs.total_in_frames),
                                            skipped(rs.engine_in[i], rs.total_in_frames))

(* a two-channel load returned after a whole chunk, a flush of a part chunk
   and at least one drain call *)
C29_Witness ==
    /\ Staging
    /\ pc = "done"
    /\ load_result = "Ok"
    /\ Len(rs.engine_in) = 2
    /\ rs.total_in_frames > rs.desired_tmp_in_frames
    /\ rs.total_in_frames % rs.desired_tmp_in_frames # 0
    /\ rs.engine_calls * rs.desired_tmp_in_frames - rs.total_in_frames
         > rs.desired_tmp_in_frames

(* a step of the drain loop that calls the engine *)
DrainCall == pc = "drain" /\ rs'.engine_calls = rs.engine_calls + 1

(* all-zero chunks are fed only while the output is shorter than the target,
   and the load returns as soon as it is not *)
DrainsOnlyWhileShort ==
    /\ DrainCall => final_buf[1] < rs.total_frames
    /\ (pc = "drain" /\ final_buf[1] >= rs.total_frames) =>
          (pc' = "done" /\ rs'.engine_calls = rs.engine_calls)

(* with no input frame decoded the engine is never called *)
NoInputNoDrain ==
    (rs.total_in_frames = 0 /\ (pc = "drain" \/ (pc = "done" /\ load_result = "Ok")))
        => rs.engine_calls = 0

(* C30: with an engine that writes at least one frame per call and a packet
   source that ends, the drain phase ends and the load returns; zero chunks
   are fed only while the output is shorter than the target, the load
   returns at the first test that finds it long enough, and with no input
   decoded no drain call is made. *)
C30_DrainTerminates ==
    /\ []NoInputNoDrain
    /\ [][DrainsOnlyWhileShort]_vars
    /\ (pc = "drain") ~> (pc = "done")

(* a load returned after at least two drain calls *)
C30_Witness ==
    /\ req.path = "resampled"
    /\ pc = "done"
    /\ load_result = "Ok"
    /\ rs.total_in_frames > 0
    /\ rs.engine_calls * rs.desired_tmp_in_frames - rs.total_in_frames
         >= 2 * rs.desired_tmp_in_frames

(* C31: while a load runs and in what it returns, every channel buffer has
   the length of the first. *)
C31_ChannelsHaveEqualLength ==
    (load_result \in {"none", "Ok"} /\ final_buf # << >>) =>
        \A i \in 1..Len(final_buf) : final_buf[i] = final_buf[1]

(* a native load whose first decoded packet was a 32-bit integer one *)
Int32First == NativeLoad /\ dec.first_packet \in {"U32", "S32"}

(* the packets of the track, with every channel, that the stream can give in
   the encoding fmt *)
PacketsOf(fmt) ==
    {p \in PacketOutcomes : p.kind = "ok" /\ p.fmt = fmt /\ p.channels >= req.n_channels
                              /\ StreamGives(p)}

(* C33: when the first decoded packet of a native load is U32 or S32, every sample is stored as the f32 of pcm_u32_to_f32 resp. pcm_i32_to_f32 and the resource returned is tagged F32; a later packet of the same integer encoding is taken, and a later F32 packet (or one of the other integer encoding) ends the load with UnexpectedErrorWhileDecoding. *)
C33_Int32StoredAsF32 ==
    /\ Int32First =>
          dec.stored = (IF dec.first_packet = "U32" THEN "pcm_u32_to_f32" ELSE "pcm_i32_to_f32")
    /\ (Int32First /\ load_result = "Ok") => loaded.tag = "F32"
    /\ (Int32First /\ pc = "rest") =>
          /\ \A p \in PacketsOf("F32") :
                Rejected(native_rest(Cur, req.sample_rate, req.file_frames, p))
          /\ \A p \in PacketsOf(IF dec.first_packet = "U32" THEN "S32" ELSE "U32") :
                Rejected(native_rest(Cur, req.sample_rate, req.file_frames, p))
          /\ \A p \in PacketsOf(dec.first_packet) :
                /\ ~Rejected(native_rest(Cur, req.sample_rate, req.file_frames, p))
                /\ native_rest(Cur, req.sample_rate, req.file_frames, p).dec.stored = dec.stored

C33_Witness ==
    /\ Int32First
    /\ dec.first_packet = "U32"
    /\ load_result = "Ok"
    /\ loaded.tag = "F32"
    /\ loaded.frames = 147

(* C34: on every load path, channel buffers are given a capacity taken from the declared frame count only when that count is within the frame limit of the byte budget; a load that fails on the declared count has allocated none. *)
C34_AllocatedOnlyWithinBudget ==
    (req.file_frames # None /\ dec.capacity # None) => req.file_frames <= dec.max_frames

(* a resampled load at the head of a turn of `while total_copied_frames <
   decoded_frames`, the engine asking for between 1 and input_frames_max()
   frames *)
BeforeCopy ==
    /\ req.path = "resampled"
    /\ pc = "copy"
    /\ load_result = "none"
    /\ req.engine.chunk >= 1

(* the length of tmp_resampler_in_buf's channels: resampler.input_frames_max() *)
StagingCapacity == req.engine.chunk

StagedBelowChunk ==
    /\ 0 <= rs.tmp_resampler_in_len
    /\ rs.tmp_resampler_in_len < rs.desired_tmp_in_frames
    /\ rs.desired_tmp_in_frames <= StagingCapacity

CopyWithinChunk ==
    /\ copy_frames(Cur) >= 1
    /\ rs.tmp_resampler_in_len + copy_frames(Cur) <= rs.desired_tmp_in_frames
    /\ rs.total_copied_frames + copy_frames(Cur) <= rs.decoded_frames

(* the turn called the engine, and the call returned Ok *)
EngineCalled(st) == st.rs.engine_calls = rs.engine_calls + 1 /\ st.load_result # "ErrorWhileResampling"

ResetAfterCall(st) ==
    /\ EngineCalled(st) => st.rs.tmp_resampler_in_len = 0
    /\ st.rs.engine_calls = rs.engine_calls =>
          st.rs.tmp_resampler_in_len = rs.tmp_resampler_in_len + copy_frames(Cur)
    /\ st.rs.total_copied_frames = rs.total_copied_frames + copy_frames(Cur)
          \/ st.pc # "copy"

(* C35: before every copy of the staging loop of a resampled load, 0 <= tmp_resampler_in_len < desired_tmp_in_frames <= the staging buffer's length; the copy takes at least one frame and writes no index at or above desired_tmp_in_frames; and tmp_resampler_in_len is 0 after every engine call. *)
C35_StagingStaysInsideChunk ==
    BeforeCopy =>
        /\ StagedBelowChunk
        /\ CopyWithinChunk
        /\ \A r \in EngineResults :
              ResetAfterCall(stage_copy(Cur, req.engine, req.file_frames, r))

C35_Witness ==
    /\ BeforeCopy
    /\ rs.engine_calls >= 2
    /\ rs.tmp_resampler_in_len > 0
    /\ rs.decoded_frames > rs.desired_tmp_in_frames - rs.tmp_resampler_in_len

(***************************************************************************)
(* SpecConvert: one sample is handed to one of the conversions of          *)
(* convert.rs, which returns its f32.                                      *)
(***************************************************************************)
NearEdge == 2

UnsignedConversions ==
    {"pcm_u8_to_f32", "pcm_u16_to_f32", "pcm_u24_to_f32_ne", "pcm_u24_to_f32_le",
     "pcm_u24_to_f32_be", "pcm_u32_to_f32"}

SignedConversions ==
    {"pcm_i8_to_f32", "pcm_i16_to_f32", "pcm_i24_to_f32_ne", "pcm_i24_to_f32_le",
     "pcm_i24_to_f32_be", "pcm_i32_to_f32"}

(* [u8; 3] samples: every mix of 0x00 and 0xff bytes, and values next to
   the two ends in either byte order *)
ByteTriples ==
    [1..3 -> {0, 255}]
      \cup {<<k, 0, 0>> : k \in 1..NearEdge} \cup {<<0, 0, k>> : k \in 1..NearEdge}
      \cup {<<255 - k, 255, 255>> : k \in 1..NearEdge}
      \cup {<<255, 255, 255 - k>> : k \in 1..NearEdge}

(* the samples given to each conversion: the ends of its range and their
   neighbours; a u32 is its 16-bit halves <<high, low>> *)
ConvInputs(fn) ==
    CASE fn = "pcm_u8_to_f32" -> (0..NearEdge) \cup ((255 - NearEdge)..255) \cup {128}
      [] fn = "pcm_u16_to_f32" -> (0..NearEdge) \cup ((65535 - NearEdge)..65535) \cup {32768}
      [] fn = "pcm_u32_to_f32" ->
            {<<0, k>> : k \in 0..NearEdge} \cup {<<65535, 65535 - k>> : k \in 0..NearEdge}
              \cup {<<32768, 0>>, <<0, 65535>>, <<65535, 0>>}
      [] fn = "pcm_i8_to_f32" -> ((0 - NearEdge)..NearEdge) \cup ((127 - NearEdge)..127) \cup {-128}
      [] fn = "pcm_i16_to_f32" ->
            ((0 - NearEdge)..NearEdge) \cup ((32767 - NearEdge)..32767) \cup {-32768}
      [] fn = "pcm_i32_to_f32" ->
            ((0 - NearEdge)..NearEdge) \cup {2147483647 - k : k \in 0..NearEdge}
              \cup {-2147483647}
      [] fn = "decode_u24_packet" ->
            (0..NearEdge) \cup ((16777215 - NearEdge)..16777215) \cup {258, 8388608}
      [] fn = "decode_i24_packet" ->
            ((0 - NearEdge)..NearEdge) \cup ((8388607 - NearEdge)..8388607)
              \cup ((0 - 8388608)..(NearEdge - 8388608)) \cup {258, -258}
      [] OTHER -> ByteTriples

(* the call fn(s) in a build for the given target_endian *)
converted(endian, fn, s) ==
    CASE fn = "pcm_u8_to_f32" -> pcm_u8_to_f32(s)
      [] fn = "pcm_u16_to_f32" -> pcm_u16_to_f32(s)
      [] fn = "pcm_u24_to_f32_ne" -> pcm_u24_to_f32_ne(endian, s)
      [] fn = "pcm_u24_to_f32_le" -> pcm_u24_to_f32_le(s)
      [] fn = "pcm_u24_to_f32_be" -> pcm_u24_to_f32_be(s)
      [] fn = "pcm_u32_to_f32" -> pcm_u32_to_f32(s)
      [] fn = "pcm_i8_to_f32" -> pcm_i8_to_f32(s)
      [] fn = "pcm_i16_to_f32" -> pcm_i16_to_f32(s)
      [] fn = "pcm_i24_to_f32_ne" -> pcm_i24_to_f32_ne(endian, s)
      [] fn = "pcm_i24_to_f32_le" -> pcm_i24_to_f32_le(s)
      [] fn = "pcm_i24_to_f32_be" -> pcm_i24_to_f32_be(s)
      [] fn = "pcm_i32_to_f32" -> pcm_i32_to_f32(s)

(* the [u8; 3] that decode_u24_packet / decode_i24_packet push for the
   sample v: to_ne_bytes(), the low three bytes of v in the build's order *)
to_ne_bytes(endian, v) ==
    LET u == IF v < 0 THEN v + 16777216 ELSE v
    IN  IF endian = "little" THEN <<u % 256, (u \div 256) % 256, u \div 65536>>
        ELSE <<u \div 65536, (u \div 256) % 256, u % 256>>

(* a 24-bit sample stored by the load and read back by a fill *)
StoredSamples == {"decode_u24_packet", "decode_i24_packet"}

InitConvert ==
    /\ \E fn \in UnsignedConversions \cup SignedConversions \cup StoredSamples :
         \E s \in ConvInputs(fn) : conv = [fn |-> fn, s |-> s, done |-> FALSE, out |-> F32Zero]
    /\ target_endian \in Endians
    /\ resource = DecodedAudio_new([tag |-> "F32", pcm |-> << << >> >>], 44100)
    /\ buf_l = << >>
    /\ buf_r = << >>
    /\ call = NoCall
    /\ LoadIdle
    /\ PoolIdle

Convert ==
    /\ conv.fn \in UnsignedConversions \cup SignedConversions
    /\ ~conv.done
    /\ conv' = [conv EXCEPT !.done = TRUE, !.out = converted(target_endian, conv.fn, conv.s)]
    /\ UNCHANGED <<fillVars, loadVars, poolVars>>

(* decode_u24_packet / decode_i24_packet store the sample's bytes; a fill
   of the U24 / S24 resource converts them. *)
StoreAndFill ==
    /\ conv.fn \in StoredSamples
    /\ ~conv.done
    /\ conv' = [conv EXCEPT !.done = TRUE,
                            !.out = IF conv.fn = "decode_u24_packet"
                                    THEN pcm_u24_to_f32_ne(target_endian,
                                                           to_ne_bytes(target_endian, conv.s))
                                    ELSE pcm_i24_to_f32_ne(target_endian,
                                                           to_ne_bytes(target_endian, conv.s))]
    /\ UNCHANGED <<fillVars, loadVars, poolVars>>

NextConvert == Convert \/ StoreAndFill

SpecConvert == InitConvert /\ [][NextConvert]_vars

(* the sample 0 and the largest sample, as each conversion takes them *)
ZeroSample(fn) ==
    CASE fn \in {"pcm_u8_to_f32", "pcm_u16_to_f32", "pcm_i8_to_f32", "pcm_i16_to_f32",
                 "pcm_i32_to_f32"} -> 0
      [] fn = "pcm_u32_to_f32" -> <<0, 0>>
      [] OTHER -> <<0, 0, 0>>

MaxUnsigned(fn) ==
    CASE fn = "pcm_u8_to_f32" -> 255
      [] fn = "pcm_u16_to_f32" -> 65535
      [] fn = "pcm_u32_to_f32" -> <<65535, 65535>>
      [] OTHER -> <<255, 255, 255>>

(* C20: every unsigned conversion (u8, u16, u24 ne / le / be, u32) returns
   exactly -1.0 for the sample 0 and exactly 1.0 for the largest sample, and
   every signed conversion (i8, i16, i24 ne / le / be, i32) returns exactly
   0.0 for the sample 0. *)
C20_BoundarySamplesAreExact ==
    conv.done =>
        /\ (conv.fn \in UnsignedConversions /\ conv.s = ZeroSample(conv.fn)) =>
              conv.out = <<-1, 0>>
        /\ (conv.fn \in UnsignedConversions /\ conv.s = MaxUnsigned(conv.fn)) =>
              conv.out = <<1, 0>>
        /\ (conv.fn \in SignedConversions /\ conv.s = ZeroSample(conv.fn)) =>
              conv.out = F32Zero

C20_Witness ==
    /\ conv.done
    /\ conv.fn = "pcm_u32_to_f32"
    /\ conv.s = <<65535, 65535>>
    /\ conv.out = <<1, 0>>

(* v = <<m, e>> is m * 2^e with m odd (|m| < 2^24), or zero: -1.0 <= v <= 1.0 *)
InUnitRange(v) ==
    LET mag == IF v[1] < 0 THEN 0 - v[1] ELSE v[1]
    IN  \/ mag = 0
        \/ v[2] <= -24
        \/ v[2] <= 0 /\ mag <= 2^(0 - v[2])

(* C21: whatever sample a conversion is given, the f32 it returns lies in
   the closed range from -1.0 to 1.0. *)
C21_ResultWithinUnitRange == conv.done => InUnitRange(conv.out)

(* C22: a signed 24-bit sample v stored by the load and read back by a fill
   comes out as v / 8388607, and an unsigned one as v * (2 / 16777215) - 1:
   the three stored bytes are rebuilt into v itself. *)
C22_StoredBytesRebuildTheSample ==
    (conv.done /\ conv.fn \in StoredSamples) =>
        conv.out = (IF conv.fn = "decode_i24_packet" THEN i24_val_to_f32(conv.s)
                    ELSE u24_val_to_f32(conv.s))

(***************************************************************************)
(* SpecPool: the pool of resampling engines that SymphoniumLoader keeps    *)
(* across loads (resample.rs get_resampler, lib.rs load / decode /         *)
(* resample).                                                              *)
(***************************************************************************)

PoolRates == {44100, 48000}

PoolChannels == {1, 2}

ResampleQualityKey == {"Low", "Normal", "High"}

ResamplerKey(pcm_sr, target_sr, n_channels, quality) ==
    [pcm_sr |-> pcm_sr, target_sr |-> target_sr, channels |-> n_channels, quality |-> quality]

(* the engines a caller can pass in ResampleQuality::Custom *)
CustomEngines == { [num_channels |-> c, owner |-> "caller", gen |-> 0] : c \in PoolChannels }

(* FastFixedIn::new / FftFixedIn::new / SincFixedIn::new(.., CHUNK_SIZE, n_channels) *)
ResamplerOwned(n_channels, gen) == [num_channels |-> n_channels, owner |-> "pool", gen |-> gen]

Entries(pool, key) == {e \in pool : e.key = key}

(* a pool that stores a new engine on every request *)
insert_always(pool, key, n_channels) ==
    pool \cup {[key |-> key,
                engine |-> ResamplerOwned(n_channels, Cardinality(Entries(pool, key)) + 1)]}

(* HashMap::entry(key).or_insert_with(|| new engine) *)
or_insert_with(pool, key, n_channels) ==
    IF Entries(pool, key) # {} THEN pool
    ELSE pool \cup {[key |-> key, engine |-> ResamplerOwned(n_channels, 1)]}

Lent(pool, engine, constructed) ==
    [resamplers |-> pool, outcome |-> "lent", engine |-> engine, constructed |-> constructed]

Panicked(pool) ==
    [resamplers |-> pool, outcome |-> "panic", engine |-> NoEngine, constructed |-> FALSE]

(* the pooled arms: new_ok is whether the engine's constructor returns Ok
   (its result is unwrapped inside the or_insert_with closure) *)
pooled(pool, after, key, new_ok) ==
    IF Entries(pool, key) = {} /\ ~new_ok THEN Panicked(pool)
    ELSE Lent(after, (CHOOSE e \in Entries(after, key) : TRUE).engine, after # pool)

get_pooled_resampler(pool, resample_quality, custom, pcm_sr, target_sr, n_channels, new_ok) ==
    IF resample_quality = "Custom"
    THEN IF custom.num_channels # n_channels THEN Panicked(pool)
         ELSE Lent(pool, custom, FALSE)
    ELSE pooled(pool,
                or_insert_with(pool, ResamplerKey(pcm_sr, target_sr, n_channels, resample_quality),
                               n_channels),
                ResamplerKey(pcm_sr, target_sr, n_channels, resample_quality), new_ok)

PoolTargets == {None, 48000}

(* lib.rs decode / decode_f32_inner: the resampler is asked for only when a
   target rate is given and differs from the source's *)
needs_resampler(source_sr, target_sample_rate) ==
    target_sample_rate # None /\ source_sr # target_sample_rate

NotAsked(pool) ==
    [resamplers |-> pool, outcome |-> "not_called", engine |-> NoEngine, constructed |-> FALSE]

(* SymphoniumLoader::load and its siblings, as far as the pool goes:
   load_file fails (source_ok = FALSE) before anything else, then decode *)
load(pool, source_ok, source_sr, n_channels, target_sample_rate, resample_quality, custom, new_ok) ==
    IF ~source_ok THEN NotAsked(pool)
    ELSE IF ~needs_resampler(source_sr, target_sample_rate) THEN NotAsked(pool)
    ELSE get_pooled_resampler(pool, resample_quality, custom, source_sr, target_sample_rate,
                       n_channels, new_ok)

InitPool ==
    /\ PoolIdle
    /\ LoadIdle
    /\ target_endian = "little"
    /\ resource = DecodedAudio_new([tag |-> "F32", pcm |-> << << >> >>], 44100)
    /\ buf_l = << >>
    /\ buf_r = << >>
    /\ call = NoCall
    /\ conv = NoConv

PoolAfter(r) ==
    /\ resamplers' = r.resamplers
    /\ lent' = [outcome |-> r.outcome, engine |-> r.engine, constructed |-> r.constructed]
    /\ UNCHANGED <<fillVars, loadVars, convVars>>

Load ==
    \E source_ok \in BOOLEAN, source_sr \in PoolRates, n_channels \in PoolChannels :
      \E target_sample_rate \in PoolTargets, resample_quality \in ResampleQuality :
        \E custom \in CustomEngines, new_ok \in BOOLEAN :
          PoolAfter(load(resamplers, source_ok, source_sr, n_channels, target_sample_rate,
                      resample_quality, custom, new_ok))

NextPool == Load

SpecPool == InitPool /\ [][NextPool]_vars

(* every way one more load on the loader can be asked for *)
LoadRequests ==
    [source_ok : BOOLEAN, sample_rate : PoolRates, n_channels : PoolChannels,
     target_sample_rate : PoolTargets, resample_quality : ResampleQuality,
     custom : CustomEngines, new_ok : BOOLEAN]

Asked(q) ==
    load(resamplers, q.source_ok, q.sample_rate, q.n_channels, q.target_sample_rate,
         q.resample_quality, q.custom, q.new_ok)

KeyOf(q) == ResamplerKey(q.sample_rate, q.target_sample_rate, q.n_channels, q.resample_quality)

(* the load reaches a pooled arm of get_resampler *)
AsksPool(q) ==
    /\ q.source_ok
    /\ needs_resampler(q.sample_rate, q.target_sample_rate)
    /\ q.resample_quality # "Custom"

OneEnginePerKey ==
    /\ \A e1 \in resamplers : \A e2 \in resamplers : e1.key = e2.key => e1 = e2
    /\ \A e \in resamplers :
         /\ e.key.quality \in ResampleQualityKey
         /\ e.engine.num_channels = e.key.channels

RepeatedKeyReuses(q, r) ==
    (AsksPool(q) /\ Entries(resamplers, KeyOf(q)) # {}) =>
        /\ r.outcome = "lent"
        /\ ~r.constructed
        /\ r.resamplers = resamplers
        /\ [key |-> KeyOf(q), engine |-> r.engine] \in resamplers

OthersLeavePool(q, r) == ~AsksPool(q) => r.resamplers = resamplers

(* C32: the pool holds at most one engine per key, each with the key's channel count and a pooled quality; a load whose key is already pooled is lent the pooled engine and constructs none; a load that needs no resampling or passes a Custom engine leaves the pool as it was. *)
C32_PoolOneEnginePerKey ==
    /\ OneEnginePerKey
    /\ \A q \in LoadRequests : RepeatedKeyReuses(q, Asked(q)) /\ OthersLeavePool(q, Asked(q))

C32_Witness ==
    /\ Cardinality(resamplers) >= 3
    /\ lent.outcome = "lent"
    /\ lent.engine.owner = "pool"
    /\ ~lent.constructed
====
